---------------------------- MODULE Spec2Model ----------------------------
(***************************************************************************)
(* Meal-window feature and target engine of Glucose-Curve                  *)
(* (src/AI Models/glucose_ml): the grid resampler, the statistical         *)
(* primitives and the target extractor, modelled as pure functions over    *)
(* exact rational arithmetic.  A float is a pair <<n, d>>: d > 0 is the    *)
(* reduced fraction n/d, and <<0, 0>> is NaN ("unknown").                  *)
(***************************************************************************)
EXTENDS Integers, Sequences, FiniteSets, TLC

VARIABLES
    fn,     \* the function under call
    args,   \* its arguments, a record keyed by the parameter names
    pc,     \* "call" before the body ran, "return" or "raise" after it
    ret     \* what it returned (NoRet before the call and after a raise)

vars == <<fn, args, pc, ret>>

-----------------------------------------------------------------------------
(* float arithmetic: numpy float64 on the values the model draws, exact *)

NaN == <<0, 0>>

Abs(k) == IF k < 0 THEN -k ELSE k

RECURSIVE GCD(_, _)
GCD(a, b) == IF b = 0 THEN a ELSE GCD(b, a % b)

\* the reduced fraction n/d, d # 0
Frac(n, d) ==
    LET s == IF d < 0 THEN -1 ELSE 1
        g == GCD(Abs(n), Abs(d))
    IN  <<(s * n) \div g, (s * d) \div g>>

\* float(k) of an integer k
F(k) == <<k, 1>>

isfinite(v) == v[2] # 0
isnan(v) == v[2] = 0

fadd(a, b) == IF isnan(a) \/ isnan(b) THEN NaN
              ELSE Frac(a[1] * b[2] + b[1] * a[2], a[2] * b[2])
fsub(a, b) == IF isnan(a) \/ isnan(b) THEN NaN
              ELSE Frac(a[1] * b[2] - b[1] * a[2], a[2] * b[2])
fmul(a, b) == IF isnan(a) \/ isnan(b) THEN NaN
              ELSE Frac(a[1] * b[1], a[2] * b[2])
\* a / b; the model never divides a finite value by zero
fdiv(a, b) == IF isnan(a) \/ isnan(b) \/ b[1] = 0 THEN NaN
              ELSE Frac(a[1] * b[2], a[2] * b[1])

\* comparisons: every comparison with NaN is False
flt(a, b) == isfinite(a) /\ isfinite(b) /\ a[1] * b[2] < b[1] * a[2]
fle(a, b) == isfinite(a) /\ isfinite(b) /\ a[1] * b[2] <= b[1] * a[2]
fgt(a, b) == flt(b, a)
fge(a, b) == fle(b, a)
feq(a, b) == isfinite(a) /\ isfinite(b) /\ a = b

\* ceil(a / b) and floor(a / b) of integers, b > 0
CeilDiv(a, b) == -((-a) \div b)
FloorDiv(a, b) == a \div b

\* the subsequence of s at the indices of idx
Take(s, idx) == [k \in 1..Len(idx) |-> s[idx[k]]]

\* the indices i of 1..n with keep[i], ascending (a boolean-mask selection)
RECURSIVE WhereFrom(_, _, _)
WhereFrom(keep, i, n) ==
    IF i > n THEN <<>>
    ELSE IF keep[i] THEN <<i>> \o WhereFrom(keep, i + 1, n)
    ELSE WhereFrom(keep, i + 1, n)
Where(keep) == WhereFrom(keep, 1, Len(keep))

\* mask.sum()
CountTrue(keep) == Cardinality({i \in 1..Len(keep) : keep[i]})

-----------------------------------------------------------------------------
(* time_utils.resample_to_grid *)

\* the 0.0001 of "end_minute + 0.0001", as 1 / ArangeEpsInv
ArangeEpsInv == 10000

\* np.arange(start, stop + 1/ArangeEpsInv, step, dtype=float) for integer
\* start, stop and step > 0: ceil((stop + eps - start) / step) points
\* start + i * step
arange_noeps(start, stop, step) ==
    LET n == CeilDiv(stop - start, step)
        len == IF n < 0 THEN 0 ELSE n
    IN  [i \in 1..len |-> F(start + (i - 1) * step)]

arange_overshoot(start, stop, step) ==
    LET n == CeilDiv(stop + step - start, step)
        len == IF n < 0 THEN 0 ELSE n
    IN  [i \in 1..len |-> F(start + (i - 1) * step)]

arange(start, stop, step) ==
    LET n == CeilDiv(ArangeEpsInv * (stop - start) + 1, ArangeEpsInv * step)
        len == IF n < 0 THEN 0 ELSE n
    IN  [i \in 1..len |-> F(start + (i - 1) * step)]

\* the indices of t in ascending order of their keys, equal keys in input
\* order
RECURSIVE InsertIdx(_, _, _)
InsertIdx(t, sorted, i) ==
    IF sorted = <<>> THEN <<i>>
    ELSE IF flt(t[i], t[sorted[Len(sorted)]])
         THEN InsertIdx(t, SubSeq(sorted, 1, Len(sorted) - 1), i)
              \o <<sorted[Len(sorted)]>>
         ELSE sorted \o <<i>>

RECURSIVE ArgsortUpTo(_, _)
ArgsortUpTo(t, k) ==
    IF k = 0 THEN <<>> ELSE InsertIdx(t, ArgsortUpTo(t, k - 1), k)

\* every arrangement of the elements of the sequence s
RECURSIVE Arrangements(_)
Arrangements(s) ==
    IF Len(s) <= 1 THEN {s}
    ELSE UNION {{<<s[i]>> \o r
                 : r \in Arrangements(SubSeq(s, 1, i - 1)
                                      \o SubSeq(s, i + 1, Len(s)))}
                : i \in 1..Len(s)}

\* the orders that sort t, given one of them: each run of equal keys in any
\* arrangement
RECURSIVE TieOrders(_, _)
TieOrders(t, s) ==
    IF s = <<>> THEN {<<>>}
    ELSE LET run == CHOOSE n \in 1..Len(s) :
                       /\ \A j \in 1..n : t[s[j]] = t[s[1]]
                       /\ n < Len(s) => t[s[n + 1]] # t[s[1]]
         IN  {a \o r : a \in Arrangements(SubSeq(s, 1, run)),
                       r \in TieOrders(t, SubSeq(s, run + 1, Len(s)))}

argsort_unsorted(t) == {[k \in 1..Len(t) |-> k]}

\* np.argsort(t) with the default kind: quicksort is not stable, so equal
\* keys come out in any order; the set of orders it may return
argsort(t) == TieOrders(t, ArgsortUpTo(t, Len(t)))

\* binary_search_with_guess of np.interp on an ascending xp:
\* 0 (C's -1) when x < xp[1], Len(xp) + 1 when x > xp[last], else the last
\* index j with xp[j] <= x
SearchSorted(x, xp) ==
    IF fgt(x, xp[Len(xp)]) THEN Len(xp) + 1
    ELSE IF flt(x, xp[1]) THEN 0
    ELSE CHOOSE j \in 1..Len(xp) :
            /\ fle(xp[j], x)
            /\ \A k \in (j + 1)..Len(xp) : ~fle(xp[k], x)

\* np.interp(x, xp, fp) at one point, xp ascending with Len(xp) >= 1:
\* fp[1] left of xp, fp[last] right of it, fp[j] on a knot, else the line
\* through the knots around x
interp1(x, xp, fp) ==
    LET j == SearchSorted(x, xp)
    IN  IF j = 0 THEN fp[1]
        ELSE IF j = Len(xp) + 1 THEN fp[Len(xp)]
        ELSE IF j = Len(xp) THEN fp[j]
        ELSE IF xp[j] = x THEN fp[j]
        ELSE LET slope == fdiv(fsub(fp[j + 1], fp[j]), fsub(xp[j + 1], xp[j]))
             IN  fadd(fmul(slope, fsub(x, xp[j])), fp[j])

interp(gx, xp, fp) == [i \in 1..Len(gx) |-> interp1(gx[i], xp, fp)]

\* y_interp[grid_t < t[0]] = nan; y_interp[grid_t > t[-1]] = nan
EdgesToNaN_leading_only(grid_t, y_interp, t) ==
    [i \in 1..Len(grid_t) |->
        IF flt(grid_t[i], t[1]) THEN NaN ELSE y_interp[i]]

EdgesToNaN(grid_t, y_interp, t) ==
    [i \in 1..Len(grid_t) |->
        IF flt(grid_t[i], t[1]) \/ fgt(grid_t[i], t[Len(t)])
        THEN NaN ELSE y_interp[i]]

\* mask = np.isfinite(minutes) & np.isfinite(values)
FiniteMask(minutes, values) ==
    [i \in 1..Len(minutes) |-> isfinite(minutes[i]) /\ isfinite(values[i])]

\* the set of results of resample_to_grid: one for each order np.argsort
\* may return
resample_to_grid(minutes, values, grid_minutes, start_minute, end_minute) ==
    LET mask == FiniteMask(minutes, values)
        grid_t == arange(start_minute, end_minute, grid_minutes)
    IN  IF CountTrue(mask) < 2
        THEN {[grid_t |-> grid_t, grid_y |-> [i \in 1..Len(grid_t) |-> NaN]]}
        ELSE LET sel == Where(mask)
                 t0 == Take(minutes, sel)
                 y0 == Take(values, sel)
             IN  {LET t == Take(t0, order)
                      y == Take(y0, order)
                  IN  [grid_t |-> grid_t,
                       grid_y |-> EdgesToNaN(grid_t, interp(grid_t, t, y), t)]
                  : order \in argsort(t0)}

-----------------------------------------------------------------------------
(* time_utils.linear_slope *)

\* what a call produces: a returned value, or the exception it raised
\* (exc is "" for a normal return)
Ok(v) == [exc |-> "", value |-> v]
Raise(e, v) == [exc |-> e, value |-> v]

\* the sum of a sequence of floats, left to right
RECURSIVE fsum(_)
fsum(s) == IF s = <<>> THEN F(0) ELSE fadd(fsum(SubSeq(s, 1, Len(s) - 1)), s[Len(s)])

\* np.polyfit(x0, y0, 1)[0] on finite x0, y0 with Len >= 1.  polyfit divides
\* each Vandermonde column by its norm and solves by SVD least squares:
\*  - x0 not constant: the ordinary least-squares slope;
\*  - x0 constant c # 0: the system has rank 1 and lstsq returns the
\*    minimum-norm solution of the scaled system, slope mean(y0) / (2 c);
\*  - x0 constantly 0: the x column has norm 0, 0/0 fills it with NaN and
\*    LAPACK's SVD either fails to converge (LinAlgError) or yields NaN,
\*    by build.
polyfit_slope(x0, y0) ==
    LET n == F(Len(x0))
        sx == fsum(x0)
        sy == fsum(y0)
        sxx == fsum([i \in 1..Len(x0) |-> fmul(x0[i], x0[i])])
        sxy == fsum([i \in 1..Len(x0) |-> fmul(x0[i], y0[i])])
        den == fsub(fmul(n, sxx), fmul(sx, sx))
    IN  IF den # F(0)
        THEN {Ok(fdiv(fsub(fmul(n, sxy), fmul(sx, sy)), den))}
        ELSE IF x0[1] # F(0)
        THEN {Ok(fdiv(fdiv(sy, n), fmul(F(2), x0[1])))}
        ELSE {Raise("LinAlgError", NaN), Ok(NaN)}

\* fewer finite pairs than this give NaN ("if mask.sum() < 3")
MinSlopePoints == 3

linear_slope_unmasked(x, y) ==
    LET mask == FiniteMask(x, y)
    IN  IF CountTrue(mask) < MinSlopePoints THEN {Ok(NaN)}
        ELSE LET nz == [i \in 1..Len(y) |-> IF isfinite(y[i]) THEN y[i] ELSE F(0)]
                 keepx == Where([i \in 1..Len(x) |-> isfinite(x[i])])
             IN  polyfit_slope(Take(x, keepx), Take(nz, keepx))

\* the set of outcomes of linear_slope(x, y)
linear_slope(x, y) ==
    LET mask == FiniteMask(x, y)
    IN  IF CountTrue(mask) < MinSlopePoints THEN {Ok(NaN)}
        ELSE polyfit_slope(Take(x, Where(mask)), Take(y, Where(mask)))

-----------------------------------------------------------------------------
(* targets._trapz_auc *)

trapz_unhalved(y0, dx) ==
    fsum([i \in 1..(Len(y0) - 1) |-> fmul(dx, fadd(y0[i + 1], y0[i]))])

\* np.trapz(y0, dx): (dx * (y0[1:] + y0[:-1]) / 2.0).sum()
trapz(y0, dx) ==
    fsum([i \in 1..(Len(y0) - 1) |->
            fdiv(fmul(dx, fadd(y0[i + 1], y0[i])), F(2))])

\* np.where(np.isfinite(y), y, 0.0)
NanToZero(y) ==
    [i \in 1..Len(y) |-> IF isfinite(y[i]) THEN y[i] ELSE F(0)]

DropNan(y) == Take(y, Where([i \in 1..Len(y) |-> isfinite(y[i])]))

_trapz_auc_excluding(y, dt_minutes) ==
    IF Len(y) < 2 \/ ~(\E i \in 1..Len(y) : isfinite(y[i])) THEN F(0)
    ELSE trapz(DropNan(y), dt_minutes)

_trapz_auc(y, dt_minutes) ==
    IF Len(y) < 2 \/ ~(\E i \in 1..Len(y) : isfinite(y[i])) THEN F(0)
    ELSE trapz(NanToZero(y), dt_minutes)

-----------------------------------------------------------------------------
(* targets.compute_targets *)

\* np.nanmedian(vals): the middle of the sorted finite values, the mean of
\* the two middle ones when their number is even, NaN when there is none
nanmedian(vals) ==
    LET fin == DropNan(vals)
        srt == Take(fin, ArgsortUpTo(fin, Len(fin)))
        n == Len(srt)
    IN  IF n = 0 THEN NaN
        ELSE IF n % 2 = 1 THEN srt[(n + 1) \div 2]
        ELSE fdiv(fadd(srt[n \div 2], srt[n \div 2 + 1]), F(2))

\* np.isfinite(vals).sum()
CountFinite(vals) == Cardinality({i \in 1..Len(vals) : isfinite(vals[i])})

\* pre_mask = (minutes_rel >= -cfg.pre_baseline_minutes) & (minutes_rel < 0)
pre_mask_closed(minutes_rel, cfg) ==
    [i \in 1..Len(minutes_rel) |->
        /\ fge(minutes_rel[i], F(-cfg.pre_baseline_minutes))
        /\ fle(minutes_rel[i], F(0))]

pre_mask(minutes_rel, cfg) ==
    [i \in 1..Len(minutes_rel) |->
        /\ fge(minutes_rel[i], F(-cfg.pre_baseline_minutes))
        /\ flt(minutes_rel[i], F(0))]

\* baseline of compute_targets
targets_baseline(minutes_rel, glucose_mgdl, cfg) ==
    LET pre_vals == Take(glucose_mgdl, Where(pre_mask(minutes_rel, cfg)))
    IN  IF CountFinite(pre_vals) >= cfg.min_points_pre_baseline
        THEN nanmedian(pre_vals) ELSE NaN

nanmax_first(g) ==
    LET fin == {k \in 1..Len(g) : isfinite(g[k])}
    IN  IF fin = {} THEN NaN
        ELSE g[CHOOSE k \in fin : \A o \in fin : k <= o]

\* np.nanmax of a non-empty array: the largest finite value, NaN if none
nanmax(g) ==
    LET fin == {g[i] : i \in {k \in 1..Len(g) : isfinite(g[k])}}
    IN  IF fin = {} THEN NaN
        ELSE CHOOSE m \in fin : \A o \in fin : fle(o, m)

IncAboveBaseline_total(grid_g, baseline) ==
    [i \in 1..Len(grid_g) |->
        IF isnan(grid_g[i]) \/ isnan(baseline) THEN NaN
        ELSE IF flt(grid_g[i], F(0)) THEN F(0) ELSE grid_g[i]]

IncAboveBaseline_signed(grid_g, baseline) ==
    [i \in 1..Len(grid_g) |-> fsub(grid_g[i], baseline)]

\* np.maximum(0.0, grid_g - baseline), NaN where grid_g is NaN
IncAboveBaseline(grid_g, baseline) ==
    [i \in 1..Len(grid_g) |->
        LET d == fsub(grid_g[i], baseline)
        IN  IF isnan(d) THEN NaN ELSE IF flt(d, F(0)) THEN F(0) ELSE d]

LowConfidence_all_unknown(baseline) ==
    [baseline_mgdl |-> NaN,
     peak_mgdl |-> NaN,
     peak_inc_mgdl |-> NaN,
     incremental_auc_mgdl_min |-> NaN,
     slope_0_60_mgdl_per_min |-> NaN]

\* the row returned when the quality gate fails
LowConfidence(baseline) ==
    [baseline_mgdl |-> baseline,
     peak_mgdl |-> NaN,
     peak_inc_mgdl |-> NaN,
     incremental_auc_mgdl_min |-> NaN,
     slope_0_60_mgdl_per_min |-> NaN]

Min_exclusive(a, b) == (IF a < b THEN a ELSE b) - 1

\* min(a, b)
Min(a, b) == IF a < b THEN a ELSE b

\* the quality gate: np.isfinite(grid_g).sum() < cfg.min_points_post
GateFails_off_by_one(grid_g, cfg) ==
    CountFinite(grid_g) < cfg.min_points_post - 1

GateFails(grid_g, cfg) == CountFinite(grid_g) < cfg.min_points_post

\* compute_targets from the grid its resample_to_grid call returned on: the
\* set of its outcomes
TargetsOnGrid(minutes_rel, glucose_mgdl, cfg, grid) ==
    LET baseline == targets_baseline(minutes_rel, glucose_mgdl, cfg)
        grid_t == grid.grid_t
        grid_g == grid.grid_y
    IN  IF GateFails(grid_g, cfg) THEN {Ok(LowConfidence(baseline))}
        ELSE IF Len(grid_g) = 0
        THEN {Raise("ValueError", LowConfidence(baseline))}
        ELSE
        LET peak == nanmax(grid_g)
            peak_inc == IF isfinite(baseline) THEN fsub(peak, baseline) ELSE NaN
            iauc == IF isfinite(baseline)
                    THEN _trapz_auc(IncAboveBaseline(grid_g, baseline),
                                    F(cfg.grid_minutes))
                    ELSE NaN
            slope_end == Min(cfg.slope_minutes, cfg.post_minutes)
            slope_sel == Where([i \in 1..Len(grid_t) |->
                                  /\ fge(grid_t[i], F(0))
                                  /\ fle(grid_t[i], F(slope_end))])
        IN  {IF o.exc # "" THEN Raise(o.exc, LowConfidence(baseline))
             ELSE Ok([baseline_mgdl |-> baseline,
                      peak_mgdl |-> peak,
                      peak_inc_mgdl |-> peak_inc,
                      incremental_auc_mgdl_min |-> iauc,
                      slope_0_60_mgdl_per_min |-> o.value])
             : o \in linear_slope(Take(grid_t, slope_sel),
                                  Take(grid_g, slope_sel))}

------------------------------------------------------------------------\* the grids compute_targets may get from resample_to_grid
PostGrids(minutes_rel, glucose_mgdl, cfg) ==
    resample_to_grid(minutes_rel, glucose_mgdl, cfg.grid_minutes, 0,
                     cfg.post_minutes)

\* the set of outcomes of compute_targets(minutes_rel, glucose_mgdl, cfg)
compute_targets(minutes_rel, glucose_mgdl, cfg) ==
    UNION {TargetsOnGrid(minutes_rel, glucose_mgdl, cfg, grid)
           : grid \in PostGrids(minutes_rel, glucose_mgdl, cfg)}

-----
(* features.compute_glucose_context_features *)

\* m0 = (minutes_rel >= -cfg.pre_baseline_minutes) & (minutes_rel < 0)
m0_mask(minutes_rel, cfg) ==
    [i \in 1..Len(minutes_rel) |->
        /\ fge(minutes_rel[i], F(-cfg.pre_baseline_minutes))
        /\ flt(minutes_rel[i], F(0))]

\* m1 = (minutes_rel >= -cfg.pre_context_minutes) & (minutes_rel < 0)
m1_mask(minutes_rel, cfg) ==
    [i \in 1..Len(minutes_rel) |->
        /\ fge(minutes_rel[i], F(-cfg.pre_context_minutes))
        /\ flt(minutes_rel[i], F(0))]

context_baseline_fixed_threshold(minutes_rel, glucose_mgdl, cfg) ==
    LET vals == Take(glucose_mgdl, Where(m0_mask(minutes_rel, cfg)))
    IN  IF CountFinite(vals) >= 1 THEN nanmedian(vals) ELSE NaN

\* baseline of compute_glucose_context_features
context_baseline(minutes_rel, glucose_mgdl, cfg) ==
    LET vals == Take(glucose_mgdl, Where(m0_mask(minutes_rel, cfg)))
    IN  IF CountFinite(vals) >= cfg.min_points_pre_baseline
        THEN nanmedian(vals) ELSE NaN

\* context statistics need this many finite points ("sum() >= 3")
MinContextPoints == 3

\* np.nanmean(ctx), np.nanvar(ctx) of an array with a finite value
nanmean(ctx) ==
    LET fin == DropNan(ctx) IN fdiv(fsum(fin), F(Len(fin)))
nanvar(ctx) ==
    LET fin == DropNan(ctx)
        mu == nanmean(ctx)
    IN  fdiv(fsum([i \in 1..Len(fin) |->
                     fmul(fsub(fin[i], mu), fsub(fin[i], mu))]),
             F(Len(fin)))

\* the set of outcomes of compute_glucose_context_features.  pre_std_mgdl is
\* kept as its square pre_var_mgdl, the population variance: np.nanstd is
\* its square root, known exactly when the variance is.
compute_glucose_context_features(minutes_rel, glucose_mgdl, cfg) ==
    LET m0 == Where(m0_mask(minutes_rel, cfg))
        baseline == context_baseline(minutes_rel, glucose_mgdl, cfg)
        ctx == Take(glucose_mgdl, Where(m1_mask(minutes_rel, cfg)))
        enough == CountFinite(ctx) >= MinContextPoints
    IN  {IF o.exc # ""
         THEN Raise(o.exc, [baseline_mgdl |-> NaN,
                            pre_slope_mgdl_per_min |-> NaN,
                            pre_mean_mgdl |-> NaN,
                            pre_var_mgdl |-> NaN])
         ELSE Ok([baseline_mgdl |-> baseline,
                  pre_slope_mgdl_per_min |-> o.value,
                  pre_mean_mgdl |-> IF enough THEN nanmean(ctx) ELSE NaN,
                  pre_var_mgdl |-> IF enough THEN nanvar(ctx) ELSE NaN])
         : o \in linear_slope(Take(minutes_rel, m0), Take(glucose_mgdl, m0))}

-----------------------------------------------------------------------------
(* inputs *)

\* the longest sample list given to resample_to_grid and the largest grid
\* step
MaxSamples == 3
MaxStep == 3

\* the longest glucose slice given to the extractors
MaxSlice == 3

NoRet == [none |-> TRUE]

\* every sequence over S of length lo..hi
SeqsOf(S, lo, hi) == UNION {[1..n -> S] : n \in lo..hi}

\* glucose readings: unknown, or one of two levels
Readings == {NaN, F(1), F(3)}

\* sample minutes of the resampler: unknown, or a minute of 0..2
GridSampleMinutes == {NaN, F(0), F(1), F(2)}

\* (minute, value) samples in any order
Samples == SeqsOf(GridSampleMinutes \X Readings, 0, MaxSamples)

Col(samples, c) == [i \in 1..Len(samples) |-> samples[i][c]]

\* the relative minutes of a glucose slice: build_meal_dataset sorts the
\* readings by measured_at before slicing, so they ascend (ties allowed)
SliceMinutes == {F(k) : k \in (-2)..3}
Ascending(t) == \A i \in 1..(Len(t) - 1) : fle(t[i], t[i + 1])

\* MealWindowConfig values, minutes scaled down to the slice
Configs ==
    [pre_baseline_minutes : {1, 2},
     pre_context_minutes : {2},
     post_minutes : {3},
     slope_minutes : {2, 4},
     grid_minutes : {1, 2},
     min_points_pre_baseline : {0, 2},
     min_points_post : {0, 3}]

\* compute_glucose_context_features reads pre_baseline_minutes,
\* pre_context_minutes and min_points_pre_baseline only: the other fields
\* stay at one value
ContextConfigs ==
    {c \in Configs : /\ c.post_minutes = 3 /\ c.slope_minutes = 2
                     /\ c.grid_minutes = 1 /\ c.min_points_post = 3}

\* the transition of a call: it returns o.value or raises o.exc
Finish(o) ==
    /\ pc' = IF o.exc = "" THEN "return" ELSE "raise"
    /\ ret' = IF o.exc = "" THEN o.value ELSE [exc |-> o.exc]

InitCall(a) ==
    /\ fn = "none"
    /\ pc = "call"
    /\ ret = NoRet
    /\ args = a

Returned(f) == fn = f /\ pc = "return"

-----------------------------------------------------------------------------
(* resample_to_grid called on any samples and any window start <= end *)

InitResample ==
    \E s \in Samples : InitCall([minutes |-> Col(s, 1), values |-> Col(s, 2)])

ResampleToGrid ==
    /\ pc = "call"
    /\ \E start \in 0..1, step \in 1..MaxStep :
         \E end \in start..4 :
            /\ args' = [minutes |-> args.minutes, values |-> args.values,
                        grid_minutes |-> step, start_minute |-> start,
                        end_minute |-> end]
            /\ \E grid \in resample_to_grid(args.minutes, args.values, step,
                                            start, end) :
                   Finish(Ok(grid))
    /\ fn' = "resample_to_grid"

SpecResample == InitResample /\ [][ResampleToGrid]_vars

\* the minutes of the samples whose minute and value are both finite
FiniteMinutes(minutes, values) ==
    {minutes[i] : i \in {k \in 1..Len(minutes) :
                            isfinite(minutes[k]) /\ isfinite(values[k])}}

Earliest(ms) == CHOOSE m \in ms : \A o \in ms : fle(m, o)
Latest(ms) == CHOOSE m \in ms : \A o \in ms : fle(o, m)

\* C3: resample_to_grid never extrapolates: with at least 2 finite samples,
\* every grid point strictly before the earliest finite sample's minute or
\* strictly after the latest one's is NaN.
C3_NoExtrapolation ==
    Returned("resample_to_grid") =>
        LET ms == FiniteMinutes(args.minutes, args.values)
            n == CountTrue(FiniteMask(args.minutes, args.values))
        IN  n >= 2 =>
              \A i \in 1..Len(ret.grid_t) :
                 (flt(ret.grid_t[i], Earliest(ms))
                    \/ fgt(ret.grid_t[i], Latest(ms)))
                 => isnan(ret.grid_y[i])

\* a window reaching past the last real sample: interpolated grid points
\* followed by a missing trailing one
C3_Witness ==
    /\ Returned("resample_to_grid")
    /\ CountTrue(FiniteMask(args.minutes, args.values)) >= 2
    /\ LET ms == FiniteMinutes(args.minutes, args.values)
       IN  /\ \E i \in 1..Len(ret.grid_t) :
                 fgt(ret.grid_t[i], Latest(ms)) /\ isnan(ret.grid_y[i])
           /\ \E i \in 1..Len(ret.grid_t) :
                 fgt(ret.grid_t[i], Earliest(ms)) /\ isfinite(ret.grid_y[i])

\* C4: for start <= end and step > 0 the grid has floor((end-start)/step)+1
\* points, starts at start, advances by exactly step, stays inside
\* [start, end], and grid_y has one entry per grid point.
C4_GridShape ==
    Returned("resample_to_grid") =>
        LET start == args.start_minute
            end == args.end_minute
            step == args.grid_minutes
            g == ret.grid_t
        IN  /\ Len(g) = FloorDiv(end - start, step) + 1
            /\ Len(ret.grid_y) = Len(g)
            /\ g[1] = F(start)
            /\ \A i \in 1..(Len(g) - 1) : fsub(g[i + 1], g[i]) = F(step)
            /\ \A i \in 1..Len(g) : fle(F(start), g[i]) /\ fle(g[i], F(end))

\* interpolation happened on a grid of several points whose step does not
\* divide the window
C4_Witness ==
    /\ Returned("resample_to_grid")
    /\ CountTrue(FiniteMask(args.minutes, args.values)) >= 2
    /\ Len(ret.grid_t) >= 2
    /\ (args.end_minute - args.start_minute) % args.grid_minutes # 0
    /\ \E i \in 1..Len(ret.grid_y) : isfinite(ret.grid_y[i])

\* C5 as stated: the last grid point is exactly end_minute for every step.
C5_LastIsEnd ==
    Returned("resample_to_grid") =>
        ret.grid_t[Len(ret.grid_t)] = F(args.end_minute)

\* C5 amended: the last grid point is start + floor((end-start)/step)*step,
\* the largest grid point not after end_minute; it is exactly end_minute if
\* and only if the step divides end_minute - start_minute.
C5_LastGridPoint ==
    Returned("resample_to_grid") =>
        LET start == args.start_minute
            end == args.end_minute
            step == args.grid_minutes
            last == ret.grid_t[Len(ret.grid_t)]
        IN  /\ Len(ret.grid_t) >= 1
            /\ last = F(start + FloorDiv(end - start, step) * step)
            /\ fgt(fadd(last, F(step)), F(end))
            /\ (last = F(end)) <=> ((end - start) % step = 0)

\* a step that divides the window of a grid of several points: the epsilon
\* keeps the point at end_minute
C5_Witness ==
    /\ Returned("resample_to_grid")
    /\ Len(ret.grid_t) >= 2
    /\ (args.end_minute - args.start_minute) % args.grid_minutes = 0
    /\ ret.grid_t[Len(ret.grid_t)] = F(args.end_minute)

-----------------------------------------------------------------------------
(* the extractors called on any slice under any config *)

InitExtract ==
    \E n \in 0..MaxSlice :
        \E m \in [1..n -> SliceMinutes] :
            /\ Ascending(m)
            /\ \E g \in [1..n -> Readings] :
                  InitCall([minutes_rel |-> m, glucose_mgdl |-> g])

ComputeTargets ==
    /\ pc = "call"
    /\ \E cfg \in Configs :
          \E grid \in PostGrids(args.minutes_rel, args.glucose_mgdl, cfg) :
             /\ args' = [minutes_rel |-> args.minutes_rel,
                         glucose_mgdl |-> args.glucose_mgdl, cfg |-> cfg,
                         grid |-> grid]
             /\ \E o \in TargetsOnGrid(args.minutes_rel, args.glucose_mgdl,
                                       cfg, grid) :
                   Finish(o)
    /\ fn' = "compute_targets"

ComputeGlucoseContextFeatures ==
    /\ pc = "call"
    /\ \E cfg \in ContextConfigs :
          /\ args' = [minutes_rel |-> args.minutes_rel,
                      glucose_mgdl |-> args.glucose_mgdl, cfg |-> cfg]
          /\ \E o \in compute_glucose_context_features(
                        args.minutes_rel, args.glucose_mgdl, cfg) :
                Finish(o)
    /\ fn' = "compute_glucose_context_features"

NextExtract == ComputeTargets \/ ComputeGlucoseContextFeatures

SpecExtract == InitExtract /\ [][NextExtract]_vars

\* compute_targets alone, on the same slices and configs
SpecTargets == InitExtract /\ [][ComputeTargets]_vars

\* the indices of the samples with a finite value and lo <= minute <= hi
FiniteIn(lo, hi) ==
    {i \in 1..Len(args.minutes_rel) :
        /\ isfinite(args.glucose_mgdl[i])
        /\ fle(F(lo), args.minutes_rel[i])
        /\ fle(args.minutes_rel[i], F(hi))}

\* the indices of the samples with a finite value and lo <= minute < hi
FiniteInHalfOpen(lo, hi) ==
    {i \in 1..Len(args.minutes_rel) :
        /\ isfinite(args.glucose_mgdl[i])
        /\ fle(F(lo), args.minutes_rel[i])
        /\ flt(args.minutes_rel[i], F(hi))}

\* the grid minutes k * grid_minutes of [0, post_minutes]
GridMinutes(cfg) ==
    {k * cfg.grid_minutes : k \in 0..FloorDiv(cfg.post_minutes, cfg.grid_minutes)}

\* the grid minutes that lie between the earliest and the latest finite
\* sample of the slice: the points interpolation can fill
CoveredGridMinutes ==
    LET ms == FiniteMinutes(args.minutes_rel, args.glucose_mgdl)
    IN  IF CountTrue(FiniteMask(args.minutes_rel, args.glucose_mgdl)) < 2
        THEN {}
        ELSE {g \in GridMinutes(args.cfg) :
                fle(Earliest(ms), F(g)) /\ fle(F(g), Latest(ms))}

OutcomesUnknown ==
    /\ isnan(ret.peak_mgdl)
    /\ isnan(ret.peak_inc_mgdl)
    /\ isnan(ret.incremental_auc_mgdl_min)
    /\ isnan(ret.slope_0_60_mgdl_per_min)

\* C1 as stated: fewer than min_points_post finite samples with a relative
\* minute in [0, post_minutes] make peak, peak_inc, incremental AUC and
\* slope_0_60 unknown.
C1_FewPostSamplesUnknown ==
    Returned("compute_targets") =>
        (Cardinality(FiniteIn(0, args.cfg.post_minutes))
            < args.cfg.min_points_post
         => OutcomesUnknown)

\* C1 amended: the gate counts interpolated grid points, not samples.  If
\* fewer than min_points_post grid points of [0, post_minutes] lie between
\* the earliest and the latest finite sample of the slice (none do when the
\* slice has fewer than 2 finite samples), then peak, peak_inc, incremental
\* AUC and slope_0_60 are all unknown; baseline is the only field that may
\* be known.
C1_FewCoveredGridPointsUnknown ==
    Returned("compute_targets") =>
        (Cardinality(CoveredGridMinutes) < args.cfg.min_points_post
         => OutcomesUnknown)

\* the gate fails on a slice with covered grid points, one short of the
\* threshold, and baseline is still known
C1_Witness ==
    /\ Returned("compute_targets")
    /\ Cardinality(CoveredGridMinutes) = args.cfg.min_points_post - 1
    /\ Cardinality(CoveredGridMinutes) >= 2
    /\ OutcomesUnknown
    /\ isfinite(ret.baseline_mgdl)

\* the grid the resample call of this compute_targets returned
PostGrid == args.grid

\* the k-th smallest element of the bag of values vals[i], i in idx
KthSmallest(vals, idx, k) ==
    CHOOSE v \in {vals[i] : i \in idx} :
        /\ Cardinality({i \in idx : flt(vals[i], v)}) < k
        /\ Cardinality({i \in idx : fle(vals[i], v)}) >= k

\* the median of the bag of values vals[i], i in idx, idx not empty
MedianOf(vals, idx) ==
    LET n == Cardinality(idx)
    IN  fdiv(fadd(KthSmallest(vals, idx, (n + 1) \div 2),
                  KthSmallest(vals, idx, n \div 2 + 1)), F(2))

\* what the pre-meal window [-pre_baseline_minutes, 0) gives as baseline
WindowBaseline ==
    LET idx == FiniteInHalfOpen(-args.cfg.pre_baseline_minutes, 0)
    IN  IF Cardinality(idx) >= args.cfg.min_points_pre_baseline /\ idx # {}
        THEN MedianOf(args.glucose_mgdl, idx) ELSE NaN

\* C2: whenever the resampled grid over [0, post_minutes] has fewer than
\* min_points_post finite points, peak, peak_inc, incremental AUC and
\* slope_0_60 are unknown and baseline is returned as the pre-meal window
\* gives it.
C2_GateKeepsBaseline ==
    Returned("compute_targets") =>
        (CountFinite(PostGrid.grid_y) < args.cfg.min_points_post
         => /\ OutcomesUnknown
            /\ ret.baseline_mgdl = WindowBaseline)

\* the gate fails with some finite grid points and a known baseline
C2_Witness ==
    /\ Returned("compute_targets")
    /\ CountFinite(PostGrid.grid_y) < args.cfg.min_points_post
    /\ CountFinite(PostGrid.grid_y) >= 1
    /\ OutcomesUnknown
    /\ isfinite(ret.baseline_mgdl)

BaselineReturned ==
    Returned("compute_targets") \/ Returned("compute_glucose_context_features")

\* C6 as stated: baseline is the median of the finite samples with
\* -pre_baseline_minutes <= m < 0, and it is unknown exactly when fewer than
\* min_points_pre_baseline finite samples lie there.
C6_BaselineUnknownIffFew ==
    BaselineReturned =>
        LET idx == FiniteInHalfOpen(-args.cfg.pre_baseline_minutes, 0)
        IN  /\ isnan(ret.baseline_mgdl)
                <=> Cardinality(idx) < args.cfg.min_points_pre_baseline
            /\ isfinite(ret.baseline_mgdl)
                => ret.baseline_mgdl = MedianOf(args.glucose_mgdl, idx)

\* C6 amended: baseline is the median of the finite samples with
\* -pre_baseline_minutes <= m < 0 (-pre_baseline_minutes included, 0
\* excluded); it is unknown exactly when fewer than min_points_pre_baseline
\* finite samples lie there or none does (a threshold of 0 does not make
\* the median of an empty window known).
C6_BaselineIsWindowMedian ==
    BaselineReturned =>
        LET idx == FiniteInHalfOpen(-args.cfg.pre_baseline_minutes, 0)
        IN  /\ isnan(ret.baseline_mgdl)
                <=> (Cardinality(idx) < args.cfg.min_points_pre_baseline
                     \/ idx = {})
            /\ isfinite(ret.baseline_mgdl)
                => ret.baseline_mgdl = MedianOf(args.glucose_mgdl, idx)

\* a known baseline that is the mean of two different middle values, with a
\* sample exactly at -pre_baseline_minutes inside and one at minute 0 outside
C6_Witness ==
    /\ Returned("compute_glucose_context_features")
    /\ isfinite(ret.baseline_mgdl)
    /\ LET idx == FiniteInHalfOpen(-args.cfg.pre_baseline_minutes, 0)
       IN  /\ Cardinality(idx) = 2
           /\ \E i \in idx : args.minutes_rel[i] = F(-args.cfg.pre_baseline_minutes)
           /\ \E i \in idx : flt(args.glucose_mgdl[i], ret.baseline_mgdl)
    /\ \E i \in 1..Len(args.minutes_rel) :
          args.minutes_rel[i] = F(0) /\ isfinite(args.glucose_mgdl[i])

\* the slice is flat at v, covers the post window and passes both thresholds
FlatSlice(v) ==
    LET ms == FiniteMinutes(args.minutes_rel, args.glucose_mgdl)
        pre == FiniteInHalfOpen(-args.cfg.pre_baseline_minutes, 0)
    IN  /\ \A i \in 1..Len(args.glucose_mgdl) : args.glucose_mgdl[i] = v
        /\ pre # {}
        /\ Cardinality(pre) >= args.cfg.min_points_pre_baseline
        /\ fle(Earliest(ms), F(0))
        /\ fge(Latest(ms), F(args.cfg.post_minutes))
        /\ Cardinality(GridMinutes(args.cfg)) >= args.cfg.min_points_post

\* C7: on a series flat at v over the whole window, with enough points to
\* pass both thresholds, baseline = v, peak_inc = 0 and incremental AUC = 0,
\* whatever slope_minutes is.
C7_FlatSeriesZeroRise ==
    Returned("compute_targets") =>
        \A v \in Readings \ {NaN} :
            FlatSlice(v) =>
                /\ ret.baseline_mgdl = v
                /\ ret.peak_inc_mgdl = F(0)
                /\ ret.incremental_auc_mgdl_min = F(0)

\* a flat slice through a gate that needs 3 grid points
C7_Witness ==
    /\ Returned("compute_targets")
    /\ FlatSlice(F(3))
    /\ args.cfg.min_points_post = 3
    /\ ret.peak_mgdl = F(3)
    /\ ret.incremental_auc_mgdl_min = F(0)

\* C23: for every slice and config, the baseline_mgdl that
\* compute_glucose_context_features returns is the baseline_mgdl that
\* compute_targets returns: both unknown, or both known and equal.
C23_SameBaseline ==
    Returned("compute_targets") =>
        \A o \in compute_glucose_context_features(
                    args.minutes_rel, args.glucose_mgdl, args.cfg) :
            o.exc = "" => o.value.baseline_mgdl = ret.baseline_mgdl

\* a threshold of 2 met by two different pre-meal readings, the gate passed,
\* and the context features returning the same median
C23_Witness ==
    /\ Returned("compute_targets")
    /\ args.cfg.min_points_pre_baseline = 2
    /\ ret.baseline_mgdl = F(2)
    /\ isfinite(ret.peak_mgdl)
    /\ \E o \in compute_glucose_context_features(
                    args.minutes_rel, args.glucose_mgdl, args.cfg) :
            o.exc = "" /\ o.value.baseline_mgdl = F(2)

-----------------------------------------------------------------------------
(* linear_slope called on any pairs *)

\* the longest x and y given to linear_slope
MaxPairs == 4

\* x ascends over its finite entries, as grid minutes and slice minutes do;
\* NaN may stand anywhere in x and in y
SlopeXs == {NaN, F(0), F(1), F(2)}
SlopeYs == {NaN, F(0), F(2), F(4)}
AscendingFinite(x) ==
    \A i \in 1..Len(x) : \A j \in (i + 1)..Len(x) :
        (isfinite(x[i]) /\ isfinite(x[j])) => fle(x[i], x[j])

InitSlope ==
    \E n \in 0..MaxPairs :
        \E x \in [1..n -> SlopeXs] :
            /\ AscendingFinite(x)
            /\ \E y \in [1..n -> SlopeYs] : InitCall([x |-> x, y |-> y])

LinearSlope ==
    /\ pc = "call"
    /\ \E o \in linear_slope(args.x, args.y) : Finish(o)
    /\ fn' = "linear_slope"
    /\ UNCHANGED args

SpecSlope == InitSlope /\ [][LinearSlope]_vars

\* the indices of the pairs with both members finite
FinitePairs == {i \in 1..Len(args.x) : isfinite(args.x[i]) /\ isfinite(args.y[i])}

\* C8 as stated: linear_slope returns NaN whenever fewer than 3 pairs are
\* finite, and returns a number whenever at least 3 are.
C8_SlopeKnownIffThreePairs ==
    (fn = "linear_slope" /\ pc # "call") =>
        /\ pc = "return"
        /\ isnan(ret) <=> Cardinality(FinitePairs) < 3

\* C9: on at least 3 finite pairs with distinct x that lie on one line
\* y = a x + b, linear_slope returns a, whatever non-finite pairs are mixed
\* into the input.
C9_SlopeOfLine ==
    (fn = "linear_slope" /\ pc # "call") =>
        LET fin == FinitePairs
            Rise(i, j) == fdiv(fsub(args.y[j], args.y[i]),
                               fsub(args.x[j], args.x[i]))
        IN  (/\ Cardinality(fin) >= 3
             /\ \A i, j \in fin : i # j => args.x[i] # args.x[j])
            => \A i, j \in fin :
                  (/\ i # j
                   /\ \A k, l \in fin : k # l => Rise(k, l) = Rise(i, j))
                  => pc = "return" /\ ret = Rise(i, j)

\* the three points (0, 4), (1, 2), (2, 0) of a line of slope -2, with a
\* pair whose y is missing among them
C9_Witness ==
    /\ Returned("linear_slope")
    /\ Cardinality(FinitePairs) = 3
    /\ Len(args.x) = 4
    /\ \E k \in 1..4 : isfinite(args.x[k]) /\ isnan(args.y[k])
    /\ \A i \in FinitePairs :
          args.y[i] = fsub(F(4), fmul(F(2), args.x[i]))
    /\ \A i, j \in FinitePairs : i # j => args.x[i] # args.x[j]
    /\ ret = F(-2)

\* C16 as stated, for linear_slope: on finite-or-missing numbers, several
\* samples at the same minute included, the call returns and never raises.
C16_NeverRaises ==
    fn = "linear_slope" => pc # "raise"

-----------------------------------------------------------------------------
(* _trapz_auc called on any grid values *)

\* the longest y given to _trapz_auc
MaxGrid == 4

TrapzYs == {NaN, F(0), F(1), F(3)}

InitTrapz == \E y \in SeqsOf(TrapzYs, 0, MaxGrid) : InitCall([y |-> y])

TrapzAuc ==
    /\ pc = "call"
    /\ \E dt \in 1..MaxStep :
          /\ args' = [y |-> args.y, dt_minutes |-> F(dt)]
          /\ Finish(Ok(_trapz_auc(args.y, F(dt))))
    /\ fn' = "_trapz_auc"

SpecTrapz == InitTrapz /\ [][TrapzAuc]_vars

\* 2 * (w_1 y'_1 + ... + w_n y'_n): weight 1/2 at both ends and 1 inside,
\* a missing value counted as 0 at its own place
RECURSIVE TwiceWeighted(_, _)
TwiceWeighted(y, i) ==
    IF i = 0 THEN F(0)
    ELSE LET yi == IF isfinite(y[i]) THEN y[i] ELSE F(0)
             w == IF i = 1 \/ i = Len(y) THEN F(1) ELSE F(2)
         IN  fadd(TwiceWeighted(y, i - 1), fmul(w, yi))

\* C10: the trapezoidal integral is the sum over adjacent pairs of
\* step * (y'_i + y'_(i+1)) / 2 with every missing value replaced by 0 in
\* place, and 0 for fewer than 2 points or no finite value.
C10_TrapezoidMissingAsZero ==
    Returned("_trapz_auc") =>
        IF Len(args.y) < 2 \/ \A i \in 1..Len(args.y) : isnan(args.y[i])
        THEN ret = F(0)
        ELSE fmul(F(2), ret)
                = fmul(args.dt_minutes, TwiceWeighted(args.y, Len(args.y)))

\* a missing point between two finite ones: both of its trapezoids count
\* the finite neighbour only
C10_Witness ==
    /\ Returned("_trapz_auc")
    /\ args.y = <<F(1), NaN, F(3)>>
    /\ args.dt_minutes = F(2)
    /\ ret = F(4)

-----------------------------------------------------------------------------
(* features.compute_activity_features.  A datetime is an integer, the     *)
(* minute it falls in; a table is the sequence of its rows.               *)

\* (s >= start) & (s < end) over the column s
_mask_between_closed(s, start, end) ==
    [i \in 1..Len(s) |-> s[i] >= start /\ s[i] <= end]

_mask_between_shifted(s, start, end) ==
    [i \in 1..Len(s) |-> s[i] > start /\ s[i] <= end]

_mask_between(s, start, end) ==
    [i \in 1..Len(s) |-> s[i] >= start /\ s[i] < end]

\* the column c of a table
Column(df, c) == [i \in 1..Len(df) |-> df[i][c]]

\* _count: float(len(df))
_count(df) == F(Len(df))

\* _sum: pd.to_numeric(df[col]).fillna(0.0).sum(), 0.0 on an empty table
_sum(col, df) == fsum(NanToZero(Column(df, col)))

\* _volume: (reps.fillna(0) * weight_kg.fillna(0)).sum()
_volume(df) ==
    LET reps == NanToZero(Column(df, "reps"))
        wt == NanToZero(Column(df, "weight_kg"))
    IN  fsum([i \in 1..Len(df) |-> fmul(reps[i], wt[i])])

compute_activity_features(meal_time, workouts, exercise_sets, cfg) ==
    LET pre_start == meal_time - cfg.activity_pre_minutes
        post_end == meal_time + cfg.activity_post_minutes
        w_pre == Take(workouts, Where(_mask_between(
                     Column(workouts, "start_at"), pre_start, meal_time)))
        w_post == Take(workouts, Where(_mask_between(
                     Column(workouts, "start_at"), meal_time, post_end)))
        s_pre == Take(exercise_sets, Where(_mask_between(
                     Column(exercise_sets, "performed_at"), pre_start, meal_time)))
        s_post == Take(exercise_sets, Where(_mask_between(
                     Column(exercise_sets, "performed_at"), meal_time, post_end)))
    IN  [workout_count_pre6h |-> _count(w_pre),
         workout_minutes_pre6h |-> _sum("duration_min", w_pre),
         workout_energy_kcal_pre6h |-> _sum("active_energy_kcal", w_pre),
         workout_count_post3h |-> _count(w_post),
         workout_minutes_post3h |-> _sum("duration_min", w_post),
         workout_energy_kcal_post3h |-> _sum("active_energy_kcal", w_post),
         exercise_set_count_pre6h |-> _count(s_pre),
         exercise_set_volume_pre6h |-> _volume(s_pre),
         exercise_set_count_post3h |-> _count(s_post),
         exercise_set_volume_post3h |-> _volume(s_post)]

-----------------------------------------------------------------------------
(* compute_activity_features called on any tables around any anchor *)

\* the most workouts and exercise sets, taken together, given to a call
MaxRecords == 3

\* the minutes at which activity happens and at which a meal is eaten
ActivityMinutes == 0..5
AnchorMinutes == 2..3

\* a workout has a duration or an energy, the other is missing
WorkoutRows ==
    {[start_at |-> t, duration_min |-> l[1], active_energy_kcal |-> l[2]] :
        t \in ActivityMinutes, l \in {<<F(5), NaN>>, <<NaN, F(7)>>}}

\* an exercise set has a weight, and reps or none
ExerciseSetRows ==
    {[performed_at |-> t, reps |-> r, weight_kg |-> F(3)] :
        t \in ActivityMinutes, r \in {F(2), NaN}}

\* the activity windows of MealWindowConfig, scaled down
ActivityConfigs ==
    [activity_pre_minutes : {1, 2}, activity_post_minutes : {1, 2}]

InitActivity ==
    \E nw \in 0..MaxRecords :
        \E ns \in 0..(MaxRecords - nw) :
            \E w \in [1..nw -> WorkoutRows], s \in [1..ns -> ExerciseSetRows] :
                InitCall([workouts |-> w, exercise_sets |-> s])

ComputeActivityFeatures ==
    /\ pc = "call"
    /\ \E meal_time \in AnchorMinutes, cfg \in ActivityConfigs :
          /\ args' = [meal_time |-> meal_time, workouts |-> args.workouts,
                      exercise_sets |-> args.exercise_sets, cfg |-> cfg]
          /\ Finish(Ok(compute_activity_features(
                          meal_time, args.workouts, args.exercise_sets, cfg)))
    /\ fn' = "compute_activity_features"

SpecActivity == InitActivity /\ [][ComputeActivityFeatures]_vars

\* the rows of a table whose time column c lies in the set of minutes T
RowsAt(df, c, T) == {i \in 1..Len(df) : df[i][c] \in T}

\* the minutes from anchor - activity_pre_minutes up to the minute before
\* the anchor, and from the anchor up to the minute before
\* anchor + activity_post_minutes
PreWindow ==
    (args.meal_time - args.cfg.activity_pre_minutes)..(args.meal_time - 1)
PostWindow ==
    args.meal_time..(args.meal_time + args.cfg.activity_post_minutes - 1)

\* C11: a workout or exercise set is counted in the pre window exactly when
\* it is timed from anchor - activity_pre_minutes (included) to the anchor
\* (excluded), and in the post window exactly when it is timed from the
\* anchor (included) to anchor + activity_post_minutes (excluded): one at the
\* anchor counts post and not pre, one at anchor - activity_pre_minutes
\* counts pre, one at anchor + activity_post_minutes counts in neither.
C11_HalfOpenWindows ==
    Returned("compute_activity_features") =>
        /\ ret.workout_count_pre6h =
              F(Cardinality(RowsAt(args.workouts, "start_at", PreWindow)))
        /\ ret.workout_count_post3h =
              F(Cardinality(RowsAt(args.workouts, "start_at", PostWindow)))
        /\ ret.exercise_set_count_pre6h =
              F(Cardinality(RowsAt(args.exercise_sets, "performed_at", PreWindow)))
        /\ ret.exercise_set_count_post3h =
              F(Cardinality(RowsAt(args.exercise_sets, "performed_at", PostWindow)))
        /\ args.meal_time \in PostWindow /\ args.meal_time \notin PreWindow
        /\ (args.meal_time - args.cfg.activity_pre_minutes) \in PreWindow
        /\ (args.meal_time + args.cfg.activity_post_minutes)
              \notin (PreWindow \union PostWindow)

\* workouts at the anchor, at anchor - activity_pre_minutes and at
\* anchor + activity_post_minutes, and an exercise set at the anchor
C11_Witness ==
    /\ Returned("compute_activity_features")
    /\ \A t \in {args.meal_time,
                 args.meal_time - args.cfg.activity_pre_minutes,
                 args.meal_time + args.cfg.activity_post_minutes} :
          RowsAt(args.workouts, "start_at", {t}) # {}
    /\ Len(args.workouts) = 3
    /\ ret.workout_count_pre6h = F(1)
    /\ ret.workout_count_post3h = F(1)

\* the sum of vals over the index set idx
RECURSIVE SumOver(_, _)
SumOver(vals, idx) ==
    IF idx = {} THEN F(0)
    ELSE LET i == CHOOSE k \in idx : \A o \in idx : o <= k
         IN  fadd(SumOver(vals, idx \ {i}), vals[i])

\* reps * weight_kg of each exercise set, missing taken as 0
SetVolumes(df) ==
    [i \in 1..Len(df) |->
        fmul(NanToZero(Column(df, "reps"))[i],
             NanToZero(Column(df, "weight_kg"))[i])]

\* C12: the pre and post figures of each table are counts and sums over two
\* disjoint sets of its records, so count_pre + count_post never exceeds the
\* number of records.
C12_NoDoubleCount ==
    Returned("compute_activity_features") =>
        /\ \E P \in SUBSET (1..Len(args.workouts)) :
             \E Q \in SUBSET ((1..Len(args.workouts)) \ P) :
                /\ ret.workout_count_pre6h = F(Cardinality(P))
                /\ ret.workout_count_post3h = F(Cardinality(Q))
                /\ ret.workout_minutes_pre6h =
                      SumOver(NanToZero(Column(args.workouts, "duration_min")), P)
                /\ ret.workout_minutes_post3h =
                      SumOver(NanToZero(Column(args.workouts, "duration_min")), Q)
                /\ ret.workout_energy_kcal_pre6h =
                      SumOver(NanToZero(Column(args.workouts, "active_energy_kcal")), P)
                /\ ret.workout_energy_kcal_post3h =
                      SumOver(NanToZero(Column(args.workouts, "active_energy_kcal")), Q)
        /\ \E P \in SUBSET (1..Len(args.exercise_sets)) :
             \E Q \in SUBSET ((1..Len(args.exercise_sets)) \ P) :
                /\ ret.exercise_set_count_pre6h = F(Cardinality(P))
                /\ ret.exercise_set_count_post3h = F(Cardinality(Q))
                /\ ret.exercise_set_volume_pre6h =
                      SumOver(SetVolumes(args.exercise_sets), P)
                /\ ret.exercise_set_volume_post3h =
                      SumOver(SetVolumes(args.exercise_sets), Q)
        /\ fle(fadd(ret.workout_count_pre6h, ret.workout_count_post3h),
               F(Len(args.workouts)))
        /\ fle(fadd(ret.exercise_set_count_pre6h, ret.exercise_set_count_post3h),
               F(Len(args.exercise_sets)))

\* every record is counted: a workout at the anchor and one before it, an
\* exercise set at the anchor and one before it
C12_Witness ==
    /\ Returned("compute_activity_features")
    /\ RowsAt(args.workouts, "start_at", {args.meal_time}) # {}
    /\ ret.workout_count_pre6h = F(1)
    /\ ret.workout_count_post3h = F(1)
    /\ Len(args.workouts) = 2
    /\ RowsAt(args.exercise_sets, "performed_at", {args.meal_time}) # {}
    /\ ret.exercise_set_count_post3h = F(1)
    /\ ret.exercise_set_volume_post3h = F(6)

-----------------------------------------------------------------------------
(* features.compute_meal_macros, features.compute_time_features and the   *)
(* meals table of orm_extract.extract_for_meal_dataset                    *)

\* dict.update: the keys of e override those of d
Update(d, e) == e @@ d

\* the macro totals of a meal: items with grams <= 0 or serving_grams <= 0
\* are skipped, the others add grams and nutrient * grams / serving_grams
RECURSIVE compute_meal_macros(_)
compute_meal_macros(items) ==
    IF items = <<>>
    THEN [meal_grams |-> F(0), meal_calories_kcal |-> F(0),
          meal_carbs_g |-> F(0), meal_fiber_g |-> F(0),
          meal_protein_g |-> F(0), meal_fat_g |-> F(0)]
    ELSE LET totals == compute_meal_macros(SubSeq(items, 1, Len(items) - 1))
             it == items[Len(items)]
             mult == fdiv(it.grams, it.serving_grams)
         IN  IF fle(it.grams, F(0)) \/ fle(it.serving_grams, F(0))
             THEN totals
             ELSE [meal_grams |-> fadd(totals.meal_grams, it.grams),
                   meal_calories_kcal |->
                       fadd(totals.meal_calories_kcal, fmul(it.calories_kcal, mult)),
                   meal_carbs_g |->
                       fadd(totals.meal_carbs_g, fmul(it.carbs_g, mult)),
                   meal_fiber_g |->
                       fadd(totals.meal_fiber_g, fmul(it.fiber_g, mult)),
                   meal_protein_g |->
                       fadd(totals.meal_protein_g, fmul(it.protein_g, mult)),
                   meal_fat_g |->
                       fadd(totals.meal_fat_g, fmul(it.fat_g, mult))]

\* a datetime is the minute since 1970-01-01 00:00 UTC, a Thursday
\* (weekday 3)
compute_time_features(meal_time) ==
    LET hour == (meal_time \div 60) % 24
        weekday == ((meal_time \div 1440) + 3) % 7
    IN  [meal_hour |-> F(hour),
         meal_dow |-> F(weekday),
         meal_is_weekend |-> IF weekday >= 5 THEN F(1) ELSE F(0)]

\* no meal template: meal_template_id and meal_template_name are None
NoTemplate == [id |-> 0, name |-> ""]

\* the row of the meals table that extract_for_meal_dataset makes of a
\* MealEvent
MealsRow(m) ==
    Update([meal_event_id |-> m.id,
            eaten_at |-> m.eaten_at,
            meal_template_id |-> m.meal_template.id,
            meal_template_name |-> m.meal_template.name],
           compute_meal_macros(m.items))

\* the meals table, in the order of the MealEvents given
MealsFrame(meal_events) ==
    [i \in 1..Len(meal_events) |-> MealsRow(meal_events[i])]

-----------------------------------------------------------------------------
(* dataset.build_meal_dataset.  A table is the set of its column names    *)
(* and the sequence of its rows.                                          *)

\* pd.DataFrame(): no columns and no rows
EmptyFrame == [columns |-> {}, rows |-> <<>>]

\* pd.DataFrame(rows) of a non-empty list of dicts with the same keys
DataFrame(rows) ==
    IF rows = <<>> THEN EmptyFrame
    ELSE [columns |-> DOMAIN rows[1], rows |-> rows]

\* df.sort_values(col) with the default kind, and order_by(col) of a
\* queryset: the rows in ascending order of the column, rows with equal keys
\* in any order; the set of tables it may return
sort_values(df, col) ==
    {Take(df, order) : order \in argsort([i \in 1..Len(df) |-> F(df[i][col])])}

\* the EGV slice of a meal: minutes relative to meal_time of the readings
\* with -pre_context_minutes <= minute <= post_minutes
EgvSlice(egv, meal_time, cfg) ==
    LET dt_minutes == [i \in 1..Len(egv) |-> F(egv[i].measured_at - meal_time)]
        mask == Where([i \in 1..Len(egv) |->
                         /\ fge(dt_minutes[i], F(-cfg.pre_context_minutes))
                         /\ fle(dt_minutes[i], F(cfg.post_minutes))])
    IN  [minutes_rel |-> Take(dt_minutes, mask),
         glucose |-> Take([i \in 1..Len(egv) |-> egv[i].glucose_mgdl], mask)]

\* the meal_ columns of a meals row as floats: float(m[col]), NaN for None;
\* a template name is text and float() of it raises ValueError
MealColumns(m) ==
    IF m.meal_template_name # ""
    THEN Raise("ValueError", NoRet)
    ELSE Ok([meal_event_id |-> F(m.meal_event_id),
             meal_template_id |-> IF m.meal_template_id = 0 THEN NaN
                                  ELSE F(m.meal_template_id),
             meal_template_name |-> NaN,
             meal_grams |-> m.meal_grams,
             meal_calories_kcal |-> m.meal_calories_kcal,
             meal_carbs_g |-> m.meal_carbs_g,
             meal_fiber_g |-> m.meal_fiber_g,
             meal_protein_g |-> m.meal_protein_g,
             meal_fat_g |-> m.meal_fat_g])

\* minutes_since_prev_meal of the k-th meal of the sorted meals table: NaN
\* for the first, else the minutes since the row before it
MinutesSincePrev_next(meals, k) ==
    IF k = Len(meals) THEN NaN
    ELSE F(meals[k + 1].eaten_at - meals[k].eaten_at)

MinutesSincePrev(meals, k) ==
    IF k = 1 THEN NaN
    ELSE F(meals[k].eaten_at - meals[k - 1].eaten_at)

\* the outcomes of one pass of the loop body, for the k-th meal of the
\* sorted meals table: its row, or the exception raised on the way
MealStep(meals, k, egv, workouts, exercise_sets, cfg) ==
    LET m == meals[k]
        meal_time == m.eaten_at
        slice == EgvSlice(egv, meal_time, cfg)
        cols == MealColumns(m)
    IN  IF cols.exc # "" THEN {cols}
        ELSE UNION {
          IF c.exc # "" THEN {Raise(c.exc, NoRet)}
          ELSE {IF t.exc # "" THEN Raise(t.exc, NoRet)
                ELSE Ok(Update(Update(
                        [meal_event_id |-> F(m.meal_event_id),
                         eaten_at |-> meal_time,
                         egv_points_in_window |-> Len(slice.glucose),
                         minutes_since_prev_meal |-> MinutesSincePrev(meals, k)],
                        Update(Update(Update(compute_time_features(meal_time),
                                             cols.value),
                                      c.value),
                               compute_activity_features(
                                   meal_time, workouts, exercise_sets, cfg))),
                        t.value))
                : t \in compute_targets(slice.minutes_rel, slice.glucose, cfg)}
          : c \in compute_glucose_context_features(
                      slice.minutes_rel, slice.glucose, cfg)}

\* the outcomes of the first k passes of the loop: the rows so far, or the
\* first exception
RECURSIVE RowsUpTo(_, _, _, _, _, _)
RowsUpTo(meals, k, egv, workouts, exercise_sets, cfg) ==
    IF k = 0 THEN {Ok(<<>>)}
    ELSE UNION {
        IF p.exc # "" THEN {p}
        ELSE {IF r.exc # "" THEN r ELSE Ok(Append(p.value, r.value))
              : r \in MealStep(meals, k, egv, workouts, exercise_sets, cfg)}
        : p \in RowsUpTo(meals, k - 1, egv, workouts, exercise_sets, cfg)}

build_meal_dataset_no_guard(meals, egv, workouts, exercise_sets, cfg) ==
    IF meals = <<>> THEN {Raise("KeyError", NoRet)}
    ELSE UNION {{IF o.exc # "" THEN o ELSE Ok(DataFrame(o.value))
                 : o \in RowsUpTo(sorted_meals, Len(meals), sorted_egv,
                                  workouts, exercise_sets, cfg)}
                : sorted_meals \in sort_values(meals, "eaten_at"),
                  sorted_egv \in sort_values(egv, "measured_at")}

\* the set of outcomes of build_meal_dataset
build_meal_dataset(meals, egv, workouts, exercise_sets, cfg) ==
    IF meals = <<>> THEN {Ok(EmptyFrame)}
    ELSE UNION {{IF o.exc # "" THEN o ELSE Ok(DataFrame(o.value))
                 : o \in RowsUpTo(sorted_meals, Len(meals), sorted_egv,
                                  workouts, exercise_sets, cfg)}
                : sorted_meals \in sort_values(meals, "eaten_at"),
                  sorted_egv \in sort_values(egv, "measured_at")}

-----------------------------------------------------------------------------
(* predict_meal_from_django.main: the features of one MealEvent, computed *)
(* from the database tables                                               *)

\* the latest MealEvent eaten strictly before the meal, if any:
\* filter(eaten_at__lt=meal.eaten_at).order_by("-eaten_at").first()
PrevMealTimes(meal_events, meal) ==
    {meal_events[i].eaten_at : i \in {j \in 1..Len(meal_events) :
                                  meal_events[j].eaten_at < meal.eaten_at}}

\* the rows of a table whose column c lies in lo..hi, ascending by c:
\* filter(c__gte=lo, c__lte=hi).order_by(c)
FilterRange(df, c, lo, hi) ==
    LET kept == Take(df, Where([i \in 1..Len(df) |->
                                  df[i][c] >= lo /\ df[i][c] <= hi]))
    IN  sort_values(kept, c)

\* the set of outcomes of the feature computation for the MealEvent with
\* this id
predict_meal_features(meal_events, egv, workouts, exercise_sets, id, cfg) ==
    LET meal == meal_events[CHOOSE i \in 1..Len(meal_events) :
                               meal_events[i].id = id]
        meal_time == meal.eaten_at
        meal_macros == compute_meal_macros(meal.items)
        prev == PrevMealTimes(meal_events, meal)
        minutes_since_prev_meal ==
            IF prev = {} THEN NaN
            ELSE F(meal_time - (CHOOSE t \in prev : \A o \in prev : o <= t))
        w == Take(workouts, Where([i \in 1..Len(workouts) |->
                 /\ workouts[i].start_at >= meal_time - cfg.activity_pre_minutes
                 /\ workouts[i].start_at <= meal_time + cfg.activity_post_minutes]))
        sets == Take(exercise_sets, Where([i \in 1..Len(exercise_sets) |->
                 /\ exercise_sets[i].performed_at
                        >= meal_time - cfg.activity_pre_minutes
                 /\ exercise_sets[i].performed_at
                        <= meal_time + cfg.activity_post_minutes]))
    IN  UNION {
          LET egv_times == [i \in 1..Len(rows) |->
                              F(rows[i].measured_at - meal_time)]
              egv_vals == [i \in 1..Len(rows) |-> rows[i].glucose_mgdl]
          IN  {IF c.exc # "" THEN Raise(c.exc, NoRet)
               ELSE Ok(Update(Update(Update(Update(
                          compute_time_features(meal_time),
                          meal_macros),
                          c.value),
                          compute_activity_features(meal_time, w, sets, cfg)),
                          [minutes_since_prev_meal |-> minutes_since_prev_meal]))
               : c \in compute_glucose_context_features(egv_times, egv_vals,
                                                        cfg)}
          : rows \in FilterRange(egv, "measured_at",
                                 meal_time - cfg.pre_context_minutes,
                                 meal_time + cfg.post_minutes)}

-----------------------------------------------------------------------------
(* train_scalar_model: _pick_feature_columns and main                      *)

DEFAULT_TARGETS ==
    {"peak_inc_mgdl", "incremental_auc_mgdl_min", "slope_0_60_mgdl_per_min"}

\* the columns training feeds to the model: every numeric column of the
\* table that is neither an identifier nor a target; eaten_at, a datetime,
\* is the one column of the table that is not numeric
_pick_feature_columns(df, targets) ==
    LET drop == {"meal_event_id", "eaten_at", "egv_points_in_window"}
                    \union targets
    IN  {c \in df.columns : c \notin drop /\ c # "eaten_at"}

\* the fewest labeled rows main trains on
MinLabeledRows == 20

\* main on the table read from the CSV, up to the artifact it saves: an
\* empty file cannot be read; a missing target column, fewer than
\* MinLabeledRows rows with every target known, or no feature column end
\* the script; else the feature columns are picked from the labeled rows,
\* which _time_split cuts at int(max(1, 0.8 * n)) in eaten_at order
train_scalar_model(df, targets) ==
    LET labeled == [columns |-> df.columns,
                    rows |-> Take(df.rows, Where([i \in 1..Len(df.rows) |->
                                \A t \in targets : isfinite(df.rows[i][t])]))]
        n == Len(labeled.rows)
        feat_cols == _pick_feature_columns(labeled, targets)
        cut == IF (8 * n) \div 10 < 1 THEN 1 ELSE (8 * n) \div 10
    IN  IF df.columns = {} THEN Raise("EmptyDataError", NoRet)
        ELSE IF ~(targets \subseteq df.columns)
        THEN Raise("SystemExit", NoRet)
        ELSE IF n < MinLabeledRows THEN Raise("SystemExit", NoRet)
        ELSE IF feat_cols = {} THEN Raise("SystemExit", NoRet)
        ELSE Ok([feature_columns |-> feat_cols, targets |-> targets,
                 n_train |-> cut, n_test |-> n - cut])

-----------------------------------------------------------------------------
(* the dataset builder and the single-meal path run on any database *)

\* the most rows the four tables hold together
MaxRows == 3

\* a meal has no item, or an item that is skipped (0 grams) and one that
\* counts
MealItems ==
    {<<>>,
     <<[grams |-> F(0), serving_grams |-> F(50), calories_kcal |-> F(40),
        carbs_g |-> F(10), fiber_g |-> F(1), protein_g |-> F(2),
        fat_g |-> F(3)],
       [grams |-> F(100), serving_grams |-> F(50), calories_kcal |-> F(40),
        carbs_g |-> F(10), fiber_g |-> F(1), protein_g |-> F(2),
        fat_g |-> F(3)]>>}

\* MealEvents without their id: eaten at minute 2 or 3, from no template or
\* from the template "Breakfast"
MealKinds ==
    [eaten_at : 2..3,
     meal_template : {NoTemplate, [id |-> 1, name |-> "Breakfast"]},
     items : MealItems]

EgvRows == [measured_at : 1..4, glucose_mgdl : {F(1), F(3)}]

DatasetWorkoutRows ==
    {r \in WorkoutRows : r.start_at \in 1..3 /\ r.duration_min = F(5)}

DatasetExerciseSetRows ==
    {r \in ExerciseSetRows : r.performed_at \in 1..3 /\ r.reps = F(2)}

\* the one MealWindowConfig() of the scripts, minutes and thresholds scaled
\* down to the tables
DatasetConfig ==
    [pre_baseline_minutes |-> 1, pre_context_minutes |-> 2,
     post_minutes |-> 2, slope_minutes |-> 2, grid_minutes |-> 1,
     activity_pre_minutes |-> 2, activity_post_minutes |-> 1,
     min_points_pre_baseline |-> 1, min_points_post |-> 2]

\* the MealEvents get the ids 1, 2, ... in the order they are stored, which
\* is any order of their eaten_at
WithIds(kinds) ==
    [i \in 1..Len(kinds) |->
        [id |-> i, eaten_at |-> kinds[i].eaten_at,
         meal_template |-> kinds[i].meal_template, items |-> kinds[i].items]]

InitDataset ==
    \E nm \in 0..MaxRows :
      \E ne \in 0..(MaxRows - nm) :
        \E nw \in 0..(MaxRows - nm - ne) :
          \E ns \in 0..(MaxRows - nm - ne - nw) :
            \E mk \in [1..nm -> MealKinds], e \in [1..ne -> EgvRows],
               w \in [1..nw -> DatasetWorkoutRows],
               s \in [1..ns -> DatasetExerciseSetRows] :
                InitCall([meal_events |-> WithIds(mk), egv |-> e,
                          workouts |-> w, exercise_sets |-> s])

\* build_meal_dataset on the meals table of the MealEvents
BuildMealDataset ==
    /\ pc = "call"
    /\ args' = [meal_events |-> args.meal_events, egv |-> args.egv,
                workouts |-> args.workouts,
                exercise_sets |-> args.exercise_sets, cfg |-> DatasetConfig]
    /\ \E o \in build_meal_dataset(MealsFrame(args.meal_events), args.egv,
                                   args.workouts, args.exercise_sets,
                                   DatasetConfig) :
          Finish(o)
    /\ fn' = "build_meal_dataset"

\* the feature computation of predict_meal_from_django for one MealEvent
PredictMeal ==
    /\ pc = "call"
    /\ \E id \in 1..Len(args.meal_events) :
          /\ args' = [meal_events |-> args.meal_events, egv |-> args.egv,
                      workouts |-> args.workouts,
                      exercise_sets |-> args.exercise_sets,
                      meal_event_id |-> id, cfg |-> DatasetConfig]
          /\ \E o \in predict_meal_features(
                          args.meal_events, args.egv, args.workouts,
                          args.exercise_sets, id, DatasetConfig) :
                Finish(o)
    /\ fn' = "predict_meal"

\* training picks its feature columns from the table built
NextDataset == BuildMealDataset \/ PredictMeal

SpecDataset == InitDataset /\ [][NextDataset]_vars

\* build_meal_dataset was called and has returned or raised
BuildDone == fn = "build_meal_dataset" /\ pc # "call"

\* C13 as stated: build_meal_dataset returns a table with exactly one row
\* per meal of the cohort, the rows in ascending eaten_at order, whatever the
\* order of the meals given.
C13_OneRowPerMeal ==
    BuildDone =>
        /\ pc = "return"
        /\ Len(ret.rows) = Len(args.meal_events)
        /\ \A i \in 1..Len(args.meal_events) :
              Cardinality({k \in 1..Len(ret.rows) :
                  ret.rows[k].meal_event_id = F(args.meal_events[i].id)}) = 1
        /\ \A k \in 1..(Len(ret.rows) - 1) :
              ret.rows[k].eaten_at <= ret.rows[k + 1].eaten_at

\* C14: in the table built, minutes_since_prev_meal is unknown on the first
\* row and only there, and on every later row it is the minutes from the
\* eaten_at of the row before it, the rows being in ascending eaten_at
\* order, also when the meals are given unsorted.
C14_MinutesSincePrev ==
    Returned("build_meal_dataset") =>
        \A k \in 1..Len(ret.rows) :
            IF k = 1 THEN isnan(ret.rows[k].minutes_since_prev_meal)
            ELSE /\ ret.rows[k - 1].eaten_at <= ret.rows[k].eaten_at
                 /\ ret.rows[k].minutes_since_prev_meal =
                       F(ret.rows[k].eaten_at - ret.rows[k - 1].eaten_at)
                 /\ isfinite(ret.rows[k].minutes_since_prev_meal)

\* three meals given out of order, the last row one minute after the one
\* before it
C14_Witness ==
    /\ Returned("build_meal_dataset")
    /\ Len(ret.rows) = 3
    /\ args.meal_events[1].eaten_at > args.meal_events[2].eaten_at
    /\ ret.rows[2].minutes_since_prev_meal = F(0)
    /\ ret.rows[3].minutes_since_prev_meal = F(1)

\* C15: with zero meals build_meal_dataset returns the table with no rows
\* and no columns and raises nothing, whatever the other tables hold.
C15_EmptyCohort ==
    (BuildDone /\ args.meal_events = <<>>) =>
        /\ pc = "return"
        /\ ret.columns = {}
        /\ ret.rows = <<>>

\* no meal, but glucose readings and a workout
C15_Witness ==
    /\ Returned("build_meal_dataset")
    /\ args.meal_events = <<>>
    /\ Len(args.egv) = 2
    /\ Len(args.workouts) = 1
    /\ ret = EmptyFrame

\* the row of the meal with this id in a table
RowsOf(table, id) ==
    {k \in 1..Len(table.rows) : table.rows[k].meal_event_id = F(id)}

\* C17 as stated: every feature the single-meal path computes for a meal has
\* the value of the same-named field of that meal's row in the table that
\* build_meal_dataset makes of all meals of the database, also when two
\* meals share their eaten_at.
C17_SameFeatures ==
    Returned("predict_meal") =>
        \A o \in build_meal_dataset(MealsFrame(args.meal_events), args.egv,
                                    args.workouts, args.exercise_sets,
                                    args.cfg) :
            o.exc = "" =>
                \A k \in RowsOf(o.value, args.meal_event_id) :
                    \A f \in DOMAIN ret : ret[f] = o.value.rows[k][f]

-----------------------------------------------------------------------------
(* backend/core/api.py: the sync endpoint.  The database is a record of   *)
(* tables, a table the set of its rows; rows carry their fields, not      *)
(* their primary key.  A datetime is the minute it names.                 *)

\* Python's None in a payload or a nullable column
None == "None"

\* the datetime strings that django's parse_datetime understands
DateTimes ==
    ("1970-01-01T00:01:00Z" :> 1) @@ ("1970-01-01T00:02:00Z" :> 2)

\* _parse_dt: the datetime, or ValueError for None, "" and text that is no
\* datetime
_parse_dt(value) ==
    IF value \in DOMAIN DateTimes THEN Ok(DateTimes[value])
    ELSE Raise("ValueError", None)

\* the texts that uuid.UUID understands, and the UUID each one names
Uuids ==
    ("00000000-0000-0000-0000-000000000001" :> "uuid1")
        @@ ("{00000000-0000-0000-0000-000000000001}" :> "uuid1")

\* _parse_uuid: the UUID, or ValueError
_parse_uuid(value) ==
    IF value \in DOMAIN Uuids THEN Ok(Uuids[value])
    ELSE Raise("ValueError", None)

\* UUIDField.to_python on a lookup value: the UUID, or ValidationError
to_python(value) ==
    IF value \in DOMAIN Uuids THEN Ok(Uuids[value])
    ELSE Raise("ValidationError", None)

\* the database with no row
EmptyDb ==
    [sync_runs |-> 0, egv_readings |-> {}, workouts |-> {},
     sleep_sessions |-> {}, health_metrics |-> {}, exercise_sets |-> {},
     weight_readings |-> {}, meal_events |-> {}, meal_event_items |-> {},
     medication_events |-> {}]

\* uniq_<table>_source_sourceid: (source, source_id) where source_id is not
\* null
SameSourceId(a, b) ==
    a.source_id # None /\ a.source = b.source /\ a.source_id = b.source_id

\* the unique constraints of a model: the (source, source_id) pair and the
\* fallback key with the source for the HealthKit tables, client_uuid for
\* the others
Conflict(model, a, b) ==
    CASE model \in {"EGVReading", "WeightReading"} ->
            \/ SameSourceId(a, b)
            \/ a.measured_at = b.measured_at /\ a.source = b.source
      [] model = "Workout" ->
            \/ SameSourceId(a, b)
            \/ /\ a.start_at = b.start_at /\ a.end_at = b.end_at
               /\ a.activity_type = b.activity_type /\ a.source = b.source
      [] model = "SleepSession" ->
            \/ SameSourceId(a, b)
            \/ /\ a.start_at = b.start_at /\ a.end_at = b.end_at
               /\ a.stage = b.stage /\ a.source = b.source
      [] model = "HealthMetric" ->
            \/ SameSourceId(a, b)
            \/ /\ a.measured_at = b.measured_at
               /\ a.metric_type = b.metric_type /\ a.source = b.source
      [] OTHER -> a.client_uuid = b.client_uuid

\* the row holds None in a column declared without null=True: of the
\* columns a payload can leave None, source_id, template, meal_template
\* and the client_uuid of an exercise set are nullable, the weight_kg of
\* an exercise set is not
NullViolation(model, row) ==
    model = "ExerciseSet" /\ row.weight_kg = None

\* QuerySet.update_or_create(**lookup, defaults=defaults) on a table whose
\* rows matching the lookup are matched: get() raises on several matches;
\* one match is updated with the defaults, no match creates the row of the
\* lookup and the defaults; a row with None in a NOT NULL column, or one
\* that collides with another on a unique constraint, raises IntegrityError
UpdateOrCreate(table, matched, lookup, defaults, model) ==
    IF Cardinality(matched) > 1
    THEN [exc |-> "MultipleObjectsReturned", table |-> table]
    ELSE LET row == IF matched = {} THEN Update(lookup, defaults)
                    ELSE Update(CHOOSE r \in matched : TRUE, defaults)
             others == table \ matched
         IN  IF NullViolation(model, row)
                   \/ \E o \in others : Conflict(model, o, row)
             THEN [exc |-> "IntegrityError", table |-> table]
             ELSE [exc |-> "", table |-> others \union {row}]

\* what the transaction has done so far: the exception that ended it, or
\* "" and the database as written
Going(db) == [exc |-> "", db |-> db]
Failed(e, db) == [exc |-> e, db |-> db]

\* the outcome of an upsert into the table named t
Stored(st, t, u) ==
    IF u.exc # "" THEN Failed(u.exc, st.db)
    ELSE Going([st.db EXCEPT ![t] = u.table])

\* 1. EGV readings
EgvStep(r, st) ==
    LET measured_at == _parse_dt(r.measured_at)
        defaults == [measured_at |-> measured_at.value,
                     glucose_mgdl |-> r.glucose_mgdl,
                     source |-> r.source, source_id |-> r.source_id]
        table == st.db.egv_readings
    IN  IF measured_at.exc # "" THEN Failed(measured_at.exc, st.db)
        ELSE IF r.source_id \notin {None, ""}
        THEN Stored(st, "egv_readings", UpdateOrCreate(table,
                {o \in table : o.source = r.source /\ o.source_id = r.source_id},
                [source |-> r.source, source_id |-> r.source_id],
                defaults, "EGVReading"))
        ELSE Stored(st, "egv_readings", UpdateOrCreate(table,
                {o \in table : o.measured_at = measured_at.value
                               /\ o.source = r.source},
                [measured_at |-> measured_at.value, source |-> r.source],
                defaults, "EGVReading"))

\* 2. Workouts
WorkoutStep(w, st) ==
    LET start_at == _parse_dt(w.start_at)
        end_at == _parse_dt(w.end_at)
        defaults == [start_at |-> start_at.value, end_at |-> end_at.value,
                     activity_type |-> w.activity_type,
                     duration_min |-> w.duration_min,
                     source |-> w.source, source_id |-> w.source_id]
        table == st.db.workouts
    IN  IF start_at.exc # "" THEN Failed(start_at.exc, st.db)
        ELSE IF end_at.exc # "" THEN Failed(end_at.exc, st.db)
        ELSE IF w.source_id \notin {None, ""}
        THEN Stored(st, "workouts", UpdateOrCreate(table,
                {o \in table : o.source = w.source /\ o.source_id = w.source_id},
                [source |-> w.source, source_id |-> w.source_id],
                defaults, "Workout"))
        ELSE Stored(st, "workouts", UpdateOrCreate(table,
                {o \in table : /\ o.start_at = start_at.value
                               /\ o.end_at = end_at.value
                               /\ o.activity_type = w.activity_type},
                [start_at |-> start_at.value, end_at |-> end_at.value,
                 activity_type |-> w.activity_type],
                defaults, "Workout"))

\* 3. Sleep sessions
SleepStep(s, st) ==
    LET start_at == _parse_dt(s.start_at)
        end_at == _parse_dt(s.end_at)
        defaults == [start_at |-> start_at.value, end_at |-> end_at.value,
                     stage |-> s.stage, source |-> s.source,
                     source_id |-> s.source_id]
        table == st.db.sleep_sessions
    IN  IF start_at.exc # "" THEN Failed(start_at.exc, st.db)
        ELSE IF end_at.exc # "" THEN Failed(end_at.exc, st.db)
        ELSE IF s.source_id \notin {None, ""}
        THEN Stored(st, "sleep_sessions", UpdateOrCreate(table,
                {o \in table : o.source = s.source /\ o.source_id = s.source_id},
                [source |-> s.source, source_id |-> s.source_id],
                defaults, "SleepSession"))
        ELSE Stored(st, "sleep_sessions", UpdateOrCreate(table,
                {o \in table : /\ o.start_at = start_at.value
                               /\ o.end_at = end_at.value
                               /\ o.stage = s.stage},
                [start_at |-> start_at.value, end_at |-> end_at.value,
                 stage |-> s.stage],
                defaults, "SleepSession"))

\* 4. Health metrics
MetricStep(h, st) ==
    LET measured_at == _parse_dt(h.measured_at)
        defaults == [measured_at |-> measured_at.value,
                     metric_type |-> h.metric_type, value |-> h.value,
                     unit |-> h.unit, source |-> h.source,
                     source_id |-> h.source_id]
        table == st.db.health_metrics
    IN  IF measured_at.exc # "" THEN Failed(measured_at.exc, st.db)
        ELSE IF h.source_id \notin {None, ""}
        THEN Stored(st, "health_metrics", UpdateOrCreate(table,
                {o \in table : o.source = h.source /\ o.source_id = h.source_id},
                [source |-> h.source, source_id |-> h.source_id],
                defaults, "HealthMetric"))
        ELSE Stored(st, "health_metrics", UpdateOrCreate(table,
                {o \in table : /\ o.measured_at = measured_at.value
                               /\ o.metric_type = h.metric_type},
                [measured_at |-> measured_at.value,
                 metric_type |-> h.metric_type],
                defaults, "HealthMetric"))

\* 5. Exercise sets: an item without client_uuid is skipped; the
\* client_uuid goes to the lookup as it came; weight_kg, a decimal written
\* as its text, is ex.get("weight_kg", 0)
ExerciseSetStep(ex, st) ==
    LET performed_at == _parse_dt(ex.performed_at)
        client_uuid == to_python(ex.client_uuid)
        table == st.db.exercise_sets
    IN  IF performed_at.exc # "" THEN Failed(performed_at.exc, st.db)
        ELSE IF ex.client_uuid \in {None, ""} THEN st
        ELSE IF client_uuid.exc # "" THEN Failed(client_uuid.exc, st.db)
        ELSE Stored(st, "exercise_sets", UpdateOrCreate(table,
                {o \in table : o.client_uuid = client_uuid.value},
                [client_uuid |-> client_uuid.value],
                [performed_at |-> performed_at.value,
                 template_id |-> ex.template_id, name |-> ex.name,
                 reps |-> ex.reps,
                 weight_kg |-> IF "weight_kg" \in DOMAIN ex
                               THEN ex.weight_kg ELSE "0",
                 source |-> ex.source],
                "ExerciseSet"))

\* 6. Weight readings
WeightStep(wr, st) ==
    LET measured_at == _parse_dt(wr.measured_at)
        defaults == [measured_at |-> measured_at.value,
                     weight_kg |-> wr.weight_kg, source |-> wr.source,
                     source_id |-> wr.source_id, notes |-> wr.notes]
        table == st.db.weight_readings
    IN  IF measured_at.exc # "" THEN Failed(measured_at.exc, st.db)
        ELSE IF wr.source_id \notin {None, ""}
        THEN Stored(st, "weight_readings", UpdateOrCreate(table,
                {o \in table : o.source = wr.source /\ o.source_id = wr.source_id},
                [source |-> wr.source, source_id |-> wr.source_id],
                defaults, "WeightReading"))
        ELSE Stored(st, "weight_readings", UpdateOrCreate(table,
                {o \in table : o.measured_at = measured_at.value
                               /\ o.source = wr.source},
                [measured_at |-> measured_at.value, source |-> wr.source],
                defaults, "WeightReading"))

\* bulk_create(bulk, ignore_conflicts=True): the items are inserted in
\* order, one that repeats the (meal_event, food_item) of a row is dropped
RECURSIVE bulk_create(_, _)
bulk_create(table, bulk) ==
    IF bulk = <<>> THEN table
    ELSE LET it == Head(bulk)
         IN  IF \E o \in table : /\ o.meal_event = it.meal_event
                                 /\ o.food_item_id = it.food_item_id
             THEN bulk_create(table, Tail(bulk))
             ELSE bulk_create(table \union {it}, Tail(bulk))

\* 7. Meal events: the event is upserted by client_uuid, its items are
\* deleted and written anew
MealStepSync(m, st) ==
    LET client_uuid == _parse_uuid(m.client_uuid)
        eaten_at == _parse_dt(m.eaten_at)
        me == UpdateOrCreate(st.db.meal_events,
                {o \in st.db.meal_events : o.client_uuid = client_uuid.value},
                [client_uuid |-> client_uuid.value],
                [eaten_at |-> eaten_at.value,
                 meal_template_id |-> m.meal_template_id, notes |-> m.notes],
                "MealEvent")
        kept == {o \in st.db.meal_event_items : o.meal_event # client_uuid.value}
        bulk == [idx \in 1..Len(m.items) |->
                    [meal_event |-> client_uuid.value,
                     food_item_id |-> m.items[idx].food_item_id,
                     grams |-> m.items[idx].grams,
                     sort_order |-> IF "sort_order" \in DOMAIN m.items[idx]
                                    THEN m.items[idx].sort_order
                                    ELSE idx - 1]]
    IN  IF client_uuid.exc # "" THEN Failed(client_uuid.exc, st.db)
        ELSE IF eaten_at.exc # "" THEN Failed(eaten_at.exc, st.db)
        ELSE IF me.exc # "" THEN Failed(me.exc, st.db)
        ELSE Going([st.db EXCEPT !.meal_events = me.table,
                                 !.meal_event_items = bulk_create(kept, bulk)])

\* 8. Medication events
MedicationStep(e, st) ==
    LET client_uuid == _parse_uuid(e.client_uuid)
        taken_at == _parse_dt(e.taken_at)
        table == st.db.medication_events
    IN  IF client_uuid.exc # "" THEN Failed(client_uuid.exc, st.db)
        ELSE IF taken_at.exc # "" THEN Failed(taken_at.exc, st.db)
        ELSE Stored(st, "medication_events", UpdateOrCreate(table,
                {o \in table : o.client_uuid = client_uuid.value},
                [client_uuid |-> client_uuid.value],
                [taken_at |-> taken_at.value, option_id |-> e.option_id,
                 notes |-> e.notes],
                "MedicationEvent"))

\* the step of a section on one item
SectionStep(section, item, st) ==
    CASE section = "egv_readings" -> EgvStep(item, st)
      [] section = "workouts" -> WorkoutStep(item, st)
      [] section = "sleep_sessions" -> SleepStep(item, st)
      [] section = "health_metrics" -> MetricStep(item, st)
      [] section = "exercise_sets" -> ExerciseSetStep(item, st)
      [] section = "weight_readings" -> WeightStep(item, st)
      [] section = "meal_events" -> MealStepSync(item, st)
      [] section = "medication_events" -> MedicationStep(item, st)

\* the loop of a section: the items in order, up to the first exception
RECURSIVE SectionLoop(_, _, _)
SectionLoop(section, items, st) ==
    IF items = <<>> \/ st.exc # "" THEN st
    ELSE SectionLoop(section, Tail(items),
                     SectionStep(section, Head(items), st))

\* the response status of a transaction that ended in st
StatusOf(st) ==
    IF st.exc = "" THEN 200 ELSE IF st.exc = "ValueError" THEN 400 ELSE 500

\* what a failed transaction leaves: transaction.atomic() rolls back
Rollback_keeps_writes(before, st) == st.db

Rollback(before, st) == before

\* sync: one transaction writes the SyncRun and the eight sections in
\* order; an exception rolls all of it back
sync(db, payload) ==
    LET st0 == Going([db EXCEPT !.sync_runs = @ + 1])
        st1 == SectionLoop("egv_readings", payload.egv_readings, st0)
        st2 == SectionLoop("workouts", payload.workouts, st1)
        st3 == SectionLoop("sleep_sessions", payload.sleep_sessions, st2)
        st4 == SectionLoop("health_metrics", payload.health_metrics, st3)
        st5 == SectionLoop("exercise_sets", payload.exercise_sets, st4)
        st6 == SectionLoop("weight_readings", payload.weight_readings, st5)
        st7 == SectionLoop("meal_events", payload.meal_events, st6)
        st8 == SectionLoop("medication_events", payload.medication_events, st7)
    IN  [status |-> StatusOf(st8),
         db |-> IF st8.exc = "" THEN st8.db ELSE Rollback(db, st8)]


-----------------------------------------------------------------------------
(* sync called twice in a row with the same payload, on a database that   *)
(* an earlier sync has filled                                             *)

\* the items of one payload, all sections together
MaxItems == 3

Dt1 == "1970-01-01T00:01:00Z"
Dt2 == "1970-01-01T00:02:00Z"
Uuid1 == "00000000-0000-0000-0000-000000000001"

\* the items a section of the payload may hold
PayloadItems ==
    LET FoodLines ==
            {<<>>,
             <<[food_item_id |-> 1, grams |-> 100],
               [food_item_id |-> 1, grams |-> 50],
               [food_item_id |-> 2, grams |-> 30, sort_order |-> 5]>>}
    IN  [egv_readings |->
            [source_id : {None, "a"}, measured_at : {Dt1, Dt2, "yesterday"},
             glucose_mgdl : {100, 120}, source : {"healthkit"}],
     workouts |->
            [source_id : {None, "a"}, start_at : {Dt1, Dt2}, end_at : {Dt2},
             activity_type : {"run"}, duration_min : {0},
             source : {"healthkit", "manual"}],
     sleep_sessions |->
            [source_id : {None, "a"}, start_at : {Dt1}, end_at : {Dt2},
             stage : {"asleep"}, source : {"healthkit"}],
     health_metrics |->
            [source_id : {None, "a"}, measured_at : {Dt1}, metric_type : {"hrv"},
             value : {50}, unit : {"ms"}, source : {"healthkit"}],
     exercise_sets |->
            [client_uuid : {None, Uuid1, "not-a-uuid"}, performed_at : {Dt1},
             template_id : {None}, name : {"Pushups"}, reps : {10},
             weight_kg : {"20.00"}, source : {"manual"}]
            \union
            [client_uuid : {Uuid1}, performed_at : {Dt1, "yesterday"},
             template_id : {None}, name : {"Pushups"}, reps : {10},
             weight_kg : {None}, source : {"manual"}]
            \union
            {[client_uuid |-> Uuid1, performed_at |-> Dt1,
              template_id |-> None, name |-> "Pushups", reps |-> 10,
              source |-> "manual"]},
     weight_readings |->
            [source_id : {None, "a"}, measured_at : {Dt1}, weight_kg : {80},
             source : {"healthkit"}, notes : {""}],
     meal_events |->
            [client_uuid : {Uuid1, "{00000000-0000-0000-0000-000000000001}"},
             eaten_at : {Dt1}, meal_template_id : {None}, notes : {""},
             items : FoodLines]
            \union
            {[client_uuid |-> "not-a-uuid", eaten_at |-> Dt1,
              meal_template_id |-> None, notes |-> "", items |-> <<>>],
             [client_uuid |-> Uuid1, eaten_at |-> "yesterday",
              meal_template_id |-> None, notes |-> "", items |-> <<>>]},
     medication_events |->
            [client_uuid : {Uuid1, "not-a-uuid"}, taken_at : {Dt1}, option_id : {1},
             notes : {""}]]

EmptyPayload ==
    [egv_readings |-> <<>>, workouts |-> <<>>, sleep_sessions |-> <<>>,
     health_metrics |-> <<>>, exercise_sets |-> <<>>,
     weight_readings |-> <<>>, meal_events |-> <<>>,
     medication_events |-> <<>>]

\* what an earlier request has sent
SeedPayloads ==
    {EmptyPayload,
     [EmptyPayload EXCEPT
        !.egv_readings = <<[source_id |-> "a", measured_at |-> Dt1,
                            glucose_mgdl |-> 100, source |-> "healthkit"]>>,
        !.workouts = <<[source_id |-> "a", start_at |-> Dt1, end_at |-> Dt2,
                        activity_type |-> "run", duration_min |-> 0,
                        source |-> "healthkit"]>>,
        !.meal_events = <<[client_uuid |-> Uuid1, eaten_at |-> Dt2,
                           meal_template_id |-> None, notes |-> "",
                           items |-> <<[food_item_id |-> 2,
                                        grams |-> 10]>>]>>]}

InitSync ==
    \E seed \in SeedPayloads :
    \E n1 \in 0..MaxItems : \E n2 \in 0..(MaxItems - n1) :
    \E n3 \in 0..(MaxItems - n1 - n2) :
    \E n4 \in 0..(MaxItems - n1 - n2 - n3) :
    \E n5 \in 0..(MaxItems - n1 - n2 - n3 - n4) :
    \E n6 \in 0..(MaxItems - n1 - n2 - n3 - n4 - n5) :
    \E n7 \in 0..(MaxItems - n1 - n2 - n3 - n4 - n5 - n6) :
    \E n8 \in 0..(MaxItems - n1 - n2 - n3 - n4 - n5 - n6 - n7) :
    \E e \in [1..n1 -> PayloadItems.egv_readings] :
    \E w \in [1..n2 -> PayloadItems.workouts] :
    \E s \in [1..n3 -> PayloadItems.sleep_sessions] :
    \E h \in [1..n4 -> PayloadItems.health_metrics] :
    \E x \in [1..n5 -> PayloadItems.exercise_sets] :
    \E g \in [1..n6 -> PayloadItems.weight_readings] :
    \E m \in [1..n7 -> PayloadItems.meal_events] :
    \E d \in [1..n8 -> PayloadItems.medication_events] :
        InitCall([request |-> 0,
                  db |-> sync(EmptyDb, seed).db,
                  payload |-> [egv_readings |-> e, workouts |-> w,
                               sleep_sessions |-> s, health_metrics |-> h,
                               exercise_sets |-> x, weight_readings |-> g,
                               meal_events |-> m, medication_events |-> d]])

\* one POST /sync of the payload: the first on the database as it was, the
\* second on what the first has left
Sync ==
    /\ fn \in {"none", "sync"}
    /\ args.request < 2
    /\ LET db == IF args.request = 0 THEN args.db ELSE ret.db
       IN  /\ args' = [args EXCEPT !.request = @ + 1, !.db = db]
           /\ Finish(Ok(sync(db, args.payload)))
    /\ fn' = "sync"

SpecSync == InitSync /\ [][Sync]_vars

\* the synced tables of a database: all of it but the sync-run log
Synced(db) == [db EXCEPT !.sync_runs = 0]

\* the items of a payload that carry an unparseable datetime
BadDatetime(p) ==
    \/ \E i \in DOMAIN p.egv_readings :
            p.egv_readings[i].measured_at \notin DOMAIN DateTimes
    \/ \E i \in DOMAIN p.exercise_sets :
            p.exercise_sets[i].performed_at \notin DOMAIN DateTimes
    \/ \E i \in DOMAIN p.meal_events :
            p.meal_events[i].eaten_at \notin DOMAIN DateTimes

\* the items of a payload that carry a client UUID that is no UUID
BadUuid(p) ==
    \/ \E i \in DOMAIN p.exercise_sets :
            p.exercise_sets[i].client_uuid \notin DOMAIN Uuids \union {None}
    \/ \E i \in DOMAIN p.meal_events :
            p.meal_events[i].client_uuid \notin DOMAIN Uuids
    \/ \E i \in DOMAIN p.medication_events :
            p.medication_events[i].client_uuid \notin DOMAIN Uuids

\* C19: after the second of two identical requests every synced table holds
\* what it held after the first, and the sync-run log has one more entry if
\* the request was answered with 200 and none otherwise
C19_Idempotent ==
    (fn = "sync" /\ args.request = 2)
        => /\ Synced(ret.db) = Synced(args.db)
           /\ ret.db.sync_runs
                = args.db.sync_runs + (IF ret.status = 200 THEN 1 ELSE 0)

\* the second request succeeded on a payload that writes rows through both
\* lookups of a table and a meal with repeated food items
C19_Witness ==
    /\ fn = "sync" /\ args.request = 2 /\ ret.status = 200
    /\ Len(args.payload.egv_readings) + Len(args.payload.workouts) >= 2
    /\ args.payload.meal_events # <<>>
    /\ ret.db.meal_event_items # {}
    /\ ret.db.sync_runs = args.db.sync_runs + 1
    /\ ret.db.sync_runs >= 3

\* C20 as stated: a request with an unparseable datetime or an invalid
\* client UUID is answered with 400 and leaves the database as it was
C20_BadItemRejected ==
    (fn = "sync" /\ (BadDatetime(args.payload) \/ BadUuid(args.payload)))
        => ret.status = 400 /\ ret.db = args.db


\* C21 as stated: build_meal_dataset completes on the meals table of
\* extract_for_meal_dataset for every meal, also one from a template with a
\* name that is no number, and the columns it copies from the meals table
\* into a row are exactly the six macro totals, each equal to the meal's
\* total.
C21_MacrosPassThrough ==
    (BuildDone /\ args.meal_events # <<>>) =>
        /\ pc = "return"
        /\ \A i \in 1..Len(args.meal_events) :
              LET m == args.meal_events[i]
                  copied == MealColumns(MealsRow(m))
                  totals == compute_meal_macros(m.items)
              IN  /\ copied.exc = ""
                  /\ DOMAIN copied.value = DOMAIN totals
                  /\ \A k \in RowsOf(ret, m.id) :
                        \A f \in DOMAIN totals : ret.rows[k][f] = totals[f]


\* the names of the features the single-meal path computes for a meal
InferenceFeatures ==
    UNION {DOMAIN o.value :
            o \in {r \in predict_meal_features(
                            args.meal_events, args.egv, args.workouts,
                            args.exercise_sets, 1, args.cfg) : r.exc = ""}}

\* C22 as stated: every feature column training picks from the table, with
\* the default targets, is a feature the single-meal path computes; no
\* outcome of the target extractor and no identifier is among them.
C22_FeaturesComputedAtInference ==
    Returned("train_scalar_model") =>
        /\ ret.feature_columns \subseteq InferenceFeatures
        /\ ret.feature_columns \intersect {"peak_mgdl", "peak_inc_mgdl",
                           "incremental_auc_mgdl_min",
                           "slope_0_60_mgdl_per_min", "meal_event_id"} = {}


-----------------------------------------------------------------------------
(* the outcomes of compute_targets behind the quality gate *)

\* compute_targets has returned and its grid passed the quality gate
GatePassed ==
    /\ Returned("compute_targets")
    /\ CountFinite(PostGrid.grid_y) >= args.cfg.min_points_post

\* the rise of a grid value over the returned baseline: 0 below the
\* baseline, unknown where the grid point is missing
Rise(g) ==
    IF isnan(g) THEN NaN
    ELSE IF flt(g, ret.baseline_mgdl) THEN F(0)
    ELSE fsub(g, ret.baseline_mgdl)

\* the post grid passes the quality gate of the call
Passes(grid_y) == CountFinite(grid_y) >= args.cfg.min_points_post

\* C24: when the gate passes, incremental AUC is unknown if baseline is
\* unknown; otherwise it is the trapezoidal integral with spacing
\* grid_minutes of max(0, grid value - baseline) over all grid points of
\* [0, post_minutes], a missing grid point counting as 0 in place, so that
\* nothing below the baseline subtracts area.
C24_IncrementalAuc ==
    Returned("compute_targets") =>
        LET grid_y == PostGrid.grid_y
            n == Len(grid_y)
            rise == [k \in 1..n |-> Rise(grid_y[k])]
        IN  Passes(grid_y) =>
              IF isnan(ret.baseline_mgdl)
              THEN isnan(ret.incremental_auc_mgdl_min)
              ELSE IF n < 2 THEN ret.incremental_auc_mgdl_min = F(0)
              ELSE fmul(F(2), ret.incremental_auc_mgdl_min)
                      = fmul(F(args.cfg.grid_minutes), TwiceWeighted(rise, n))

\* a known baseline with a grid point above it, one below it and one
\* missing, and a positive area
C24_Witness ==
    /\ GatePassed
    /\ isfinite(ret.baseline_mgdl)
    /\ \E k \in DOMAIN PostGrid.grid_y : flt(PostGrid.grid_y[k], ret.baseline_mgdl)
    /\ \E k \in DOMAIN PostGrid.grid_y : fgt(PostGrid.grid_y[k], ret.baseline_mgdl)
    /\ \E k \in DOMAIN PostGrid.grid_y : isnan(PostGrid.grid_y[k])
    /\ fgt(ret.incremental_auc_mgdl_min, F(0))


\* the finite values of the post grid
FiniteGridValues ==
    LET grid_y == PostGrid.grid_y
    IN  {grid_y[k] : k \in {j \in DOMAIN grid_y : isfinite(grid_y[j])}}

\* C25: when the gate passes with min_points_post >= 1, peak is known and is
\* the largest finite grid value of [0, post_minutes]; peak_inc is
\* peak - baseline, possibly negative, when baseline is known, and unknown
\* exactly when baseline is unknown, peak staying known.
C25_PeakAndPeakInc ==
    (Returned("compute_targets") /\ args.cfg.min_points_post >= 1) =>
        LET grid_y == PostGrid.grid_y
            finite == {grid_y[k] : k \in {j \in DOMAIN grid_y :
                                             isfinite(grid_y[j])}}
        IN  Passes(grid_y) =>
              /\ isfinite(ret.peak_mgdl)
              /\ ret.peak_mgdl \in finite
              /\ \A v \in finite : fle(v, ret.peak_mgdl)
              /\ isnan(ret.peak_inc_mgdl) <=> isnan(ret.baseline_mgdl)
              /\ isfinite(ret.baseline_mgdl)
                    => ret.peak_inc_mgdl
                           = fsub(ret.peak_mgdl, ret.baseline_mgdl)

\* a peak below a known baseline
C25_Witness ==
    /\ GatePassed
    /\ args.cfg.min_points_post >= 1
    /\ isfinite(ret.baseline_mgdl)
    /\ flt(ret.peak_inc_mgdl, F(0))
    /\ Cardinality(FiniteGridValues) >= 2


\* the number of grid points g with 0 <= g <= min(slope_minutes,
\* post_minutes)
SlopePoints ==
    LET last == IF args.cfg.slope_minutes <= args.cfg.post_minutes
                THEN args.cfg.slope_minutes ELSE args.cfg.post_minutes
    IN  FloorDiv(last, args.cfg.grid_minutes) + 1

\* C26: compute_targets does not fail, also with slope_minutes >
\* post_minutes; when the gate passes, slope_0_60 is linear_slope over the
\* grid points from 0 to min(slope_minutes, post_minutes), both included,
\* and it is unknown when fewer than 3 of them are finite.
C26_SlopeWindow ==
    /\ (fn = "compute_targets" /\ pc # "call") => pc = "return"
    /\ Returned("compute_targets") =>
          LET grid == PostGrid
              n == SlopePoints
              xs == SubSeq(grid.grid_t, 1, n)
              ys == SubSeq(grid.grid_y, 1, n)
          IN  Passes(grid.grid_y) =>
                /\ n <= Len(grid.grid_t)
                /\ xs[n] = F((n - 1) * args.cfg.grid_minutes)
                /\ Ok(ret.slope_0_60_mgdl_per_min) \in linear_slope(xs, ys)
                /\ CountFinite(ys) < 3 => isnan(ret.slope_0_60_mgdl_per_min)

\* slope_minutes beyond post_minutes: a falling slope over the whole grid
C26_Witness ==
    /\ GatePassed
    /\ args.cfg.slope_minutes > args.cfg.post_minutes
    /\ SlopePoints = Len(PostGrid.grid_t)
    /\ flt(ret.slope_0_60_mgdl_per_min, F(0))


-----------------------------------------------------------------------------
(* resample_to_grid and the order of its samples *)

\* resample_to_grid called on any samples, on windows that start at minute
\* 0 as the window of compute_targets does
ResampleFromZero ==
    /\ pc = "call"
    /\ \E step \in 1..2, end \in 0..3 :
          /\ args' = [minutes |-> args.minutes, values |-> args.values,
                      grid_minutes |-> step, start_minute |-> 0,
                      end_minute |-> end]
          /\ \E grid \in resample_to_grid(args.minutes, args.values, step,
                                          0, end) :
                Finish(Ok(grid))
    /\ fn' = "resample_to_grid"

SpecOrder == InitResample /\ [][ResampleFromZero]_vars

\* the grids resample_to_grid may make of other samples for the window and
\* step of the call
ResampleOf(minutes, values) ==
    resample_to_grid(minutes, values, args.grid_minutes, args.start_minute,
                     args.end_minute)

\* the samples of the call with the i-th and the next one exchanged
Exchanged(s, i) ==
    [k \in 1..Len(s) |-> IF k = i THEN s[i + 1]
                         ELSE IF k = i + 1 THEN s[i] ELSE s[k]]

\* the samples of the call without those whose minute or value is not
\* finite
FiniteOnly(s) ==
    Take(s, Where(FiniteMask(args.minutes, args.values)))

\* two finite samples of the call share a minute
TiedSamples ==
    \E i, j \in 1..Len(args.minutes) :
        /\ i # j
        /\ FiniteMask(args.minutes, args.values)[i]
        /\ FiniteMask(args.minutes, args.values)[j]
        /\ args.minutes[i] = args.minutes[j]

\* the output is all missing when fewer than 2 samples are finite
FewFiniteAllMissing ==
    CountTrue(FiniteMask(args.minutes, args.values)) < 2
        => \A k \in 1..Len(ret.grid_y) : isnan(ret.grid_y[k])

\* C27 as stated: the output of resample_to_grid is its output for the
\* finite samples alone, does not depend on the order of the samples, and
\* is all missing when fewer than 2 samples are finite.
C27_OrderIndependent ==
    Returned("resample_to_grid") =>
        /\ ResampleOf(FiniteOnly(args.minutes), FiniteOnly(args.values))
              = {ret}
        /\ \A i \in 1..(Len(args.minutes) - 1) :
              ResampleOf(Exchanged(args.minutes, i),
                         Exchanged(args.values, i)) = {ret}
        /\ FewFiniteAllMissing

\* C27 amended: the output of resample_to_grid is all missing when fewer
\* than 2 samples are finite; when no two finite samples share a minute it
\* is the one output for the finite samples alone and for the samples with
\* any two neighbours exchanged, hence, every sample list being checked, for
\* the samples in every order; when finite samples share a minute, the
\* outputs the sort allows are the same for the finite samples alone and
\* after every exchange.
C27_OrderIndependentWithoutTies ==
    Returned("resample_to_grid") =>
        LET outputs == ResampleOf(args.minutes, args.values)
        IN  /\ ret \in outputs
            /\ FewFiniteAllMissing
            /\ ResampleOf(FiniteOnly(args.minutes), FiniteOnly(args.values))
                  = outputs
            /\ \A i \in 1..(Len(args.minutes) - 1) :
                  ResampleOf(Exchanged(args.minutes, i),
                             Exchanged(args.values, i)) = outputs
            /\ ~TiedSamples => outputs = {ret}

\* three finite samples given in descending order of their minutes, with a
\* non-finite one among the others, interpolated
C27_Witness ==
    /\ Returned("resample_to_grid")
    /\ Len(args.minutes) = 3
    /\ isnan(args.values[2])
    /\ fgt(args.minutes[1], args.minutes[3])
    /\ isfinite(args.values[1]) /\ isfinite(args.values[3])
    /\ args.values[1] # args.values[3]
    /\ \E k \in 1..Len(ret.grid_y) : isfinite(ret.grid_y[k])


-----------------------------------------------------------------------------
(* orm_extract.extract_for_meal_dataset and build_dataset_from_django.main *)

FilterRange_exclusive(df, c, lo, hi) ==
    sort_values(Take(df, Where([i \in 1..Len(df) |->
                                  df[i][c] >= lo /\ df[i][c] < hi])), c)

\* filter(c__gte=lo, c__lte=hi).order_by(c) of the extraction
ExtractRange(df, c, lo, hi) == FilterRange(df, c, lo, hi)

\* float(v) if v is not None else 0.0
NoneToZero(v) == IF isnan(v) THEN F(0) ELSE v

\* the four tables extract_for_meal_dataset reads from the database: the
\* meals in eaten_at order and, if there is a meal, the readings, workouts
\* and exercise sets between the first meal minus the longest look-back and
\* the last meal plus the longest look-ahead, both ends included
extract_for_meal_dataset(meal_events, egv, workouts, exercise_sets, cfg) ==
    IF meal_events = <<>>
    THEN {[meals |-> <<>>, egv |-> <<>>, workouts |-> <<>>,
           exercise_sets |-> <<>>]}
    ELSE UNION {
      LET min_meal == meals[1].eaten_at
          max_meal == meals[Len(meals)].eaten_at
          back == IF cfg.pre_context_minutes > cfg.activity_pre_minutes
                  THEN cfg.pre_context_minutes ELSE cfg.activity_pre_minutes
          ahead == IF cfg.post_minutes > cfg.activity_post_minutes
                   THEN cfg.post_minutes ELSE cfg.activity_post_minutes
          start_needed == min_meal - back
          end_needed == max_meal + ahead
      IN  {[meals |-> meals,
            egv |-> e,
            workouts |-> [i \in 1..Len(w) |->
                [start_at |-> w[i].start_at,
                 duration_min |-> NoneToZero(w[i].duration_min),
                 active_energy_kcal |-> NoneToZero(w[i].active_energy_kcal)]],
            exercise_sets |-> [i \in 1..Len(s) |->
                [performed_at |-> s[i].performed_at,
                 reps |-> NoneToZero(s[i].reps),
                 weight_kg |-> NoneToZero(s[i].weight_kg)]]]
           : e \in ExtractRange(egv, "measured_at", start_needed, end_needed),
             w \in ExtractRange(workouts, "start_at", start_needed,
                                end_needed),
             s \in ExtractRange(exercise_sets, "performed_at", start_needed,
                                end_needed)}
      : meals \in sort_values(MealsFrame(meal_events), "eaten_at")}

\* a database whose readings, workouts and sets lie inside and outside the
\* windows of its meals, eaten at minute 3 or 4
History ==
    [meals |-> [eaten_at : 3..4, meal_template : {NoTemplate}, items : {<<>>}],
     egv |-> [measured_at : {0, 1, 5, 6}, glucose_mgdl : {F(1), F(3)}],
     workouts |-> [start_at : {0, 1, 4, 6}, duration_min : {F(5)},
                 active_energy_kcal : {NaN}],
     exercise_sets |-> [performed_at : {0, 1, 4, 6}, reps : {F(2)},
                      weight_kg : {F(3)}]]

InitHistory ==
    \E nm \in 0..MaxRows :
      \E ne \in 0..(MaxRows - nm) :
        \E nw \in 0..(MaxRows - nm - ne) :
          \E ns \in 0..(MaxRows - nm - ne - nw) :
            \E mk \in [1..nm -> History.meals], e \in [1..ne -> History.egv],
               w \in [1..nw -> History.workouts],
               s \in [1..ns -> History.exercise_sets] :
                InitCall([meal_events |-> WithIds(mk), egv |-> e,
                          workouts |-> w, exercise_sets |-> s])

\* main of build_dataset_from_django: extract, then build
BuildDatasetFromDjango ==
    /\ pc = "call"
    /\ \E extracted \in extract_for_meal_dataset(
                            args.meal_events, args.egv, args.workouts,
                            args.exercise_sets, DatasetConfig) :
           /\ args' = Update(args, [cfg |-> DatasetConfig,
                                    extracted |-> extracted])
           /\ \E o \in build_meal_dataset(
                          extracted.meals, extracted.egv, extracted.workouts,
                          extracted.exercise_sets, DatasetConfig) :
                 Finish(o)
    /\ fn' = "build_dataset_from_django"

SpecExtraction == InitHistory /\ [][BuildDatasetFromDjango]_vars

\* the rows of a table whose column c is at least lo and, with closed, at
\* most hi, else below hi
Within(df, c, lo, hi, closed) ==
    {i \in 1..Len(df) : /\ df[i][c] >= lo
                        /\ IF closed THEN df[i][c] <= hi ELSE df[i][c] < hi}

\* C28: for every meal, extraction keeps as many glucose readings of
\* [eaten_at - pre_context_minutes, eaten_at + post_minutes] and as many
\* workouts and exercise sets of [eaten_at - activity_pre_minutes,
\* eaten_at + activity_post_minutes) as the database holds, and the table
\* built from the extracted tables is the table built from the whole
\* database.
C28_ExtractionLosesNothing ==
    (fn = "build_dataset_from_django" /\ pc # "call") =>
        /\ \A i \in 1..Len(args.meal_events) :
              LET t == args.meal_events[i].eaten_at
                  c == args.cfg
              IN  /\ Cardinality(Within(args.extracted.egv, "measured_at",
                        t - c.pre_context_minutes, t + c.post_minutes, TRUE))
                     = Cardinality(Within(args.egv, "measured_at",
                        t - c.pre_context_minutes, t + c.post_minutes, TRUE))
                  /\ Cardinality(Within(args.extracted.workouts, "start_at",
                        t - c.activity_pre_minutes,
                        t + c.activity_post_minutes, FALSE))
                     = Cardinality(Within(args.workouts, "start_at",
                        t - c.activity_pre_minutes,
                        t + c.activity_post_minutes, FALSE))
                  /\ Cardinality(Within(args.extracted.exercise_sets,
                        "performed_at", t - c.activity_pre_minutes,
                        t + c.activity_post_minutes, FALSE))
                     = Cardinality(Within(args.exercise_sets,
                        "performed_at", t - c.activity_pre_minutes,
                        t + c.activity_post_minutes, FALSE))
        /\ pc = "return"
        /\ Ok(ret) \in build_meal_dataset(
                           MealsFrame(args.meal_events), args.egv,
                           args.workouts, args.exercise_sets, args.cfg)

\* extraction dropped a reading before the range and kept the reading at the
\* very end of the meal's window, which the row counts
C28_Witness ==
    /\ Returned("build_dataset_from_django")
    /\ Len(args.extracted.egv) < Len(args.egv)
    /\ Len(ret.rows) = 1
    /\ \E i \in 1..Len(args.extracted.egv) :
          args.extracted.egv[i].measured_at
              = args.meal_events[1].eaten_at + args.cfg.post_minutes
    /\ ret.rows[1].egv_points_in_window >= 1


-----------------------------------------------------------------------------
(* the time features of a meal whose eaten_at carries a time zone.  A     *)
(* datetime is its wall-clock minute since 1970-01-01 00:00 and either no *)
(* tzinfo or the offset of its zone from UTC in minutes.                  *)

\* dt if it is naive, else dt.astimezone(timezone.utc).replace(tzinfo=None)
_to_utc_naive(dt) ==
    IF dt.tzinfo = None THEN dt.wall ELSE dt.wall - dt.utcoffset

MaxDay == 7

\* meals eaten at midnight, in the morning or late in the evening of the
\* days of a week, stored naive, in UTC, east or west of UTC
MealDatetimes ==
    {[wall |-> (d * 1440) + (h * 60), tzinfo |-> z[1], utcoffset |-> z[2]] :
        d \in 1..MaxDay, h \in {0, 5, 23},
        z \in {<<None, 0>>, <<"UTC", 0>>, <<"Asia/Kolkata", 330>>,
               <<"America/Chicago", -360>>}}

InitMealTime ==
    \E dt \in MealDatetimes : InitCall([eaten_at |-> dt])

\* the row of one MealEvent: extract_for_meal_dataset stores
\* _to_utc_naive(m.eaten_at) in the meals table and build_meal_dataset
\* computes the time features of that column
BuildMealRow ==
    /\ pc = "call"
    /\ LET meal_events ==
               <<[id |-> 1, eaten_at |-> _to_utc_naive(args.eaten_at),
                  meal_template |-> NoTemplate, items |-> <<>>]>>
       IN  \E extracted \in extract_for_meal_dataset(meal_events, <<>>, <<>>,
                                                     <<>>, DatasetConfig) :
              /\ args' = Update(args, [cfg |-> DatasetConfig,
                                       extracted |-> extracted])
              /\ \E o \in build_meal_dataset(
                             extracted.meals, extracted.egv,
                             extracted.workouts, extracted.exercise_sets,
                             DatasetConfig) :
                    Finish(o)
    /\ fn' = "build_meal_row"

SpecMealTime == InitMealTime /\ [][BuildMealRow]_vars

\* C29: the meal_hour, meal_dow and meal_is_weekend of a meal's row are the
\* hour, the weekday (0 = Monday) and the weekend flag of the wall-clock
\* time of eaten_at in its own zone.  Violated: a meal eaten in a zone
\* other than UTC gets the hour and the day of the UTC instant.
C29_LocalCalendarTime ==
    Returned("build_meal_row") =>
        LET hour == (args.eaten_at.wall \div 60) % 24
            weekday == ((args.eaten_at.wall \div 1440) + 3) % 7
            row == ret.rows[1]
        IN  /\ row.meal_hour = F(hour)
            /\ row.meal_dow = F(weekday)
            /\ row.meal_is_weekend = (IF weekday \in {5, 6} THEN F(1) ELSE F(0))


-----------------------------------------------------------------------------
(* the range of the incremental AUC of compute_targets *)

\* C30: whenever compute_targets returns a known incremental AUC, it is at
\* least 0, it is 0 when peak_inc is at most 0, and when peak_inc is above
\* 0 it is at most peak_inc * post_minutes.
C30_IncrementalAucRange ==
    (Returned("compute_targets") /\ isfinite(ret.incremental_auc_mgdl_min)) =>
        /\ fge(ret.incremental_auc_mgdl_min, F(0))
        /\ fle(ret.peak_inc_mgdl, F(0))
              => ret.incremental_auc_mgdl_min = F(0)
        /\ fgt(ret.peak_inc_mgdl, F(0))
              => fle(ret.incremental_auc_mgdl_min,
                     fmul(ret.peak_inc_mgdl, F(args.cfg.post_minutes)))

\* a peak above the baseline, a grid point missing at the end of the post
\* window and an area between 0 and peak_inc * post_minutes
C30_Witness ==
    /\ GatePassed
    /\ fgt(ret.peak_inc_mgdl, F(0))
    /\ isnan(PostGrid.grid_y[Len(PostGrid.grid_y)])
    /\ fgt(ret.incremental_auc_mgdl_min, F(0))
    /\ flt(ret.incremental_auc_mgdl_min,
           fmul(ret.peak_inc_mgdl, F(args.cfg.post_minutes)))


-----------------------------------------------------------------------------
(* the training pipeline: build_dataset_from_django writes the CSV,       *)
(* train_scalar_model reads it                                            *)

MaxMeals == 21

\* a database of n meals, one a minute from minute 1 on, without template
\* or items, stored in eaten_at order or against it
TrainingMeals(n, reversed) ==
    [i \in 1..n |->
        [eaten_at |-> IF reversed THEN n + 1 - i ELSE i,
         meal_template |-> NoTemplate, items |-> <<>>]]

\* a reading a minute from minute 0 up to the one given, the values of
\* even and odd minutes alternating
TrainingEgv(last, even, odd) ==
    [j \in 1..(last + 1) |->
        [measured_at |-> j - 1,
         glucose_mgdl |-> IF (j - 1) % 2 = 0 THEN even ELSE odd]]

\* the readings end two minutes after the last meal, or up to two minutes
\* earlier, which leaves the last meals without a slope
InitTraining ==
    \E n \in (MaxMeals - 3)..MaxMeals, short \in 0..2,
       reversed \in BOOLEAN, even \in {F(1), F(3)}, odd \in {F(1), F(3)} :
        InitCall([meal_events |-> WithIds(TrainingMeals(n, reversed)),
                  egv |-> TrainingEgv(n + 2 - short, even, odd),
                  workouts |-> <<>>, exercise_sets |-> <<>>])

\* main of train_scalar_model on the CSV that build_dataset_from_django
\* wrote, with the default targets
TrainScalarModel ==
    /\ Returned("build_dataset_from_django")
    /\ args' = Update(args, [data |-> ret, targets |-> DEFAULT_TARGETS])
    /\ Finish(train_scalar_model(ret, DEFAULT_TARGETS))
    /\ fn' = "train_scalar_model"

NextTraining == BuildDatasetFromDjango \/ TrainScalarModel

SpecTraining == InitTraining /\ [][NextTraining]_vars

=============================================================================
